---------------------------- MODULE Spec2Model ----------------------------
(***************************************************************************)
(* A model of the yard-pilot coverage planner: boundary conditioning, the  *)
(* coverage grid, the Voronoi roadmap, the clear-path router, the          *)
(* Boustrophedon sweep and the planning loop of generateAll.               *)
(*                                                                         *)
(* Geometry is exact integer geometry.  One unit is 10^-7 degree (about    *)
(* 1.1 cm), so that the fingerprint of a point (toFixed(6)) rounds a       *)
(* coordinate to a multiple of 10 units, the 1 cm erosion of the boundary  *)
(* is 1 unit, and the lane width used here is 100 units (about 1.1 m).     *)
(* The model frame is the frame of the coverage grid: the first edge of    *)
(* the minimum bounding box points along +y, a gridRow is a line of        *)
(* constant x and gridCol counts along y.                                  *)
(***************************************************************************)
EXTENDS Integers, Sequences, FiniteSets, TLC

VARIABLES
    rawBoundary,     \* signal rawBoundary: the uploaded boundary, or Null
    rawObstacles,    \* signal rawObstacles: the uploaded obstacles, or Null
    boundary,        \* signal boundary: the working boundary, or Null
    obstacles,       \* signal obstacles: the working obstacles, or Null
    convexHull,      \* signal convexHull
    minBoundingBox,  \* signal minBoundingBox
    coverageGrid,    \* signal coverageGrid: the cells, mutated by the sweep
    voronoiPaths,    \* signal voronoiPaths: the roadmap
    mowPath,         \* signal mowPath
    pathMarkers,     \* signal pathMarkers
    pc,              \* position in generateAll: idle, loop, finish
    path,            \* generateAll's local path (Null or a vertex sequence)
    previousLength,  \* generateAll's local previousLength
    passes,          \* number of passes of the current run
    outcome,         \* how the last run of generateAll ended
    before,          \* the published values when the current run started
    lastPass,        \* what the last call of calculateMowPath did
    args,            \* the arguments of a function applied on its own
    result           \* the values that function returned, in order

vars == <<rawBoundary, rawObstacles, boundary, obstacles, convexHull,
          minBoundingBox, coverageGrid, voronoiPaths, mowPath, pathMarkers,
          pc, path, previousLength, passes, outcome, before, lastPass,
          args, result>>

Null == "null"

\* a local that holds no record yet
None == <<>>

-----------------------------------------------------------------------------
(* Scale of the model.                                                     *)

\* userSettings.laneWidth in model units
LaneWidth == 100
\* the inward buffer of the boundary used for labelling (1 cm), in model units
BufferDistance == 1
\* one step of the fingerprint grid (FIXED_PRECISION digits), in model units
Grain == 10

-----------------------------------------------------------------------------
(* Sequence helpers.                                                       *)

Last(s) == s[Len(s)]

RECURSIVE Reverse(_)
Reverse(s) == IF s = <<>> THEN <<>> ELSE Reverse(Tail(s)) \o <<Head(s)>>

RECURSIVE FlattenSeq(_)
FlattenSeq(ss) == IF ss = <<>> THEN <<>> ELSE Head(ss) \o FlattenSeq(Tail(ss))

Range(s) == {s[i] : i \in DOMAIN s}

Min(a, b) == IF a <= b THEN a ELSE b
Max(a, b) == IF a >= b THEN a ELSE b
Abs(a) == IF a < 0 THEN -a ELSE a

-----------------------------------------------------------------------------
(* Geometry primitives (turf), on integer points <<x, y>>.                 *)

Rect(x1, y1, x2, y2) == [x1 |-> x1, y1 |-> y1, x2 |-> x2, y2 |-> y2]

\* the ring of a rectangular polygon: closed, first vertex repeated last
RingOf(r) == << <<r.x1, r.y1>>, <<r.x2, r.y1>>, <<r.x2, r.y2>>,
                <<r.x1, r.y2>>, <<r.x1, r.y1>> >>

\* the segments between consecutive positions of a coordinate list
EdgesOf(ring) == {<<ring[i], ring[i + 1]>> : i \in 1 .. (Len(ring) - 1)}

CrossP(o, a, b) == (a[1] - o[1]) * (b[2] - o[2]) - (a[2] - o[2]) * (b[1] - o[1])

Dist2(p, q) == (p[1] - q[1]) * (p[1] - q[1]) + (p[2] - q[2]) * (p[2] - q[2])

InUnit(n, d) == IF d > 0 THEN 0 <= n /\ n <= d ELSE d <= n /\ n <= 0

\* turf.lineIntersect on two segments: parallel segments give no point,
\* otherwise a point when both parameters lie in [0, 1] (touching counts)
SegmentsIntersect(p, q, a, b) ==
    LET denom == (b[2] - a[2]) * (q[1] - p[1]) - (b[1] - a[1]) * (q[2] - p[2])
        numeA == (b[1] - a[1]) * (p[2] - a[2]) - (b[2] - a[2]) * (p[1] - a[1])
        numeB == (q[1] - p[1]) * (p[2] - a[2]) - (q[2] - p[2]) * (p[1] - a[1])
    IN  denom # 0 /\ InUnit(numeA, denom) /\ InUnit(numeB, denom)

\* a point lies on the closed segment a-b
OnSegment(p, a, b) ==
    /\ CrossP(a, b, p) = 0
    /\ Min(a[1], b[1]) <= p[1] /\ p[1] <= Max(a[1], b[1])
    /\ Min(a[2], b[2]) <= p[2] /\ p[2] <= Max(a[2], b[2])

OnRing(p, ring) == \E e \in EdgesOf(ring) : OnSegment(p, e[1], e[2])

\* crossing number of the ray from p towards +x
RayCrossings(p, ring) ==
    Cardinality({i \in 1 .. (Len(ring) - 1) :
        LET a == ring[i]
            b == ring[i + 1]
        IN  /\ (a[2] > p[2]) # (b[2] > p[2])
            /\ IF b[2] > a[2]
                 THEN (p[1] - a[1]) * (b[2] - a[2]) < (p[2] - a[2]) * (b[1] - a[1])
                 ELSE (p[1] - a[1]) * (b[2] - a[2]) > (p[2] - a[2]) * (b[1] - a[1])})

\* turf.booleanContains(polygon, point): strictly inside, the ring excluded
PolygonContainsPoint(ring, p) ==
    ~OnRing(p, ring) /\ RayCrossings(p, ring) % 2 = 1

\* turf.buffer(polygon, -d) of a rectangular polygon: the rectangle inset by d
turfBuffer(ring, d) ==
    LET r == [x1 |-> Min(ring[1][1], ring[3][1]), y1 |-> Min(ring[1][2], ring[3][2]),
              x2 |-> Max(ring[1][1], ring[3][1]), y2 |-> Max(ring[1][2], ring[3][2])]
    IN  RingOf(Rect(r.x1 + d, r.y1 + d, r.x2 - d, r.y2 - d))

\* every vertex of rectangle o is inside or on rectangle b (booleanWithin)
RectWithin(o, b) ==
    b.x1 <= o.x1 /\ o.x2 <= b.x2 /\ b.y1 <= o.y1 /\ o.y2 <= b.y2

RectsDisjoint(o, b) ==
    o.x2 < b.x1 \/ b.x2 < o.x1 \/ o.y2 < b.y1 \/ b.y2 < o.y1

-----------------------------------------------------------------------------
(* Boundary conditioner, hull and bounding box (boundaries.ts).            *)

BBoxOf(ring) ==
    LET xs == {ring[i][1] : i \in DOMAIN ring}
        ys == {ring[i][2] : i \in DOMAIN ring}
    IN  Rect(CHOOSE x \in xs : \A z \in xs : x <= z,
             CHOOSE y \in ys : \A z \in ys : y <= z,
             CHOOSE x \in xs : \A z \in xs : x >= z,
             CHOOSE y \in ys : \A z \in ys : y >= z)

\* turf.booleanWithin(obstacle, boundary) on the rectangles of the model
booleanWithin(obstacle, bnd) == RectWithin(BBoxOf(obstacle), BBoxOf(bnd))

\* what one cutter leaves of a rectangle, for the cutters of the model: one
\* that covers it leaves nothing, one whose interior misses it leaves it as
\* it is, one that spans it from side to side and reaches over one edge
\* leaves the rectangle up to the cutter
CutRect(b, c) ==
    IF RectWithin(b, c) THEN None
    ELSE IF c.x2 <= b.x1 \/ b.x2 <= c.x1 \/ c.y2 <= b.y1 \/ b.y2 <= c.y1 THEN <<b>>
    ELSE IF c.y1 <= b.y1 /\ b.y2 <= c.y2
    THEN (IF b.x2 <= c.x2 THEN <<Rect(b.x1, b.y1, c.x1, b.y2)>>
          ELSE <<Rect(c.x2, b.y1, b.x2, b.y2)>>)
    ELSE (IF b.y2 <= c.y2 THEN <<Rect(b.x1, b.y1, b.x2, c.y1)>>
          ELSE <<Rect(b.x1, c.y2, b.x2, b.y2)>>)

RECURSIVE CutAll(_, _, _)
CutAll(b, cutters, i) ==
    IF i > Len(cutters) THEN RingOf(b)
    ELSE IF CutRect(b, BBoxOf(cutters[i])) = None THEN Null
    ELSE CutAll(CutRect(b, BBoxOf(cutters[i]))[1], cutters, i + 1)

\* turf.difference of the boundary and the obstacles not within it
turfDifference(bnd, cutters) == CutAll(BBoxOf(bnd), cutters, 1)

SelectNotWithin(obs, bnd) ==
    SelectSeq(obs, LAMBDA o : ~booleanWithin(o, bnd))

differenceObstaclesFromBoundary(bnd, obs) ==
    IF obs = Null THEN bnd
    ELSE LET intersectingObstacles == SelectNotWithin(obs, bnd)
         IN  IF Len(intersectingObstacles) = 0 THEN bnd
             ELSE turfDifference(bnd, intersectingObstacles)

removeOrphanedObstacles(bnd, obs) ==
    IF obs = Null THEN Null
    ELSE SelectSeq(obs, LAMBDA o : booleanWithin(o, bnd))

\* turf.convex: Null when the ring has fewer than three distinct vertices
getConvexHull(bnd) ==
    IF Cardinality(Range(bnd)) < 3 THEN Null ELSE RingOf(BBoxOf(bnd))

\* getMinBoundingBox on a rectangular hull with orientation 0: every edge
\* gives a candidate of the same area, so the first edge wins; a Null hull
\* makes the read of convexHull.geometry throw
getMinBoundingBox(hull) ==
    IF hull = Null THEN [threw |-> TRUE, mbb |-> Null]
    ELSE [threw |-> FALSE, mbb |-> RingOf(BBoxOf(hull))]

-----------------------------------------------------------------------------
(* Coverage grid (coverage-grid.ts).                                       *)

unvisited == "unvisited"
visited == "visited"
unvisitable == "unvisitable"

\* turf.squareGrid: whole cells of side cellSide centred in the box,
\* emitted x outermost, y innermost; each cell is given by its centroid
squareGrid(box, cellSide) ==
    LET columns == (box.x2 - box.x1) \div cellSide
        rows    == (box.y2 - box.y1) \div cellSide
        deltaX  == ((box.x2 - box.x1) - columns * cellSide) \div 2
        deltaY  == ((box.y2 - box.y1) - rows * cellSide) \div 2
    IN  [k \in 1 .. (columns * rows) |->
            LET i == (k - 1) \div rows
                j == (k - 1) % rows
            IN  << box.x1 + deltaX + i * cellSide + cellSide \div 2,
                   box.y1 + deltaY + j * cellSide + cellSide \div 2 >>]

\* the labelling loop: a new gridRow whenever the centroid's x differs from
\* the previous cell's, gridCol counting the cells since then
\* a labelling loop that does not restart gridCol on a new row
RECURSIVE LabelCellsKeepCol(_, _, _, _)
LabelCellsKeepCol(cents, i, rowIndex, colIndex) ==
    IF i > Len(cents) THEN <<>>
    ELSE LET newRow == i > 1 /\ cents[i][1] # cents[i - 1][1]
             r == IF newRow THEN rowIndex + 1 ELSE rowIndex
             c == IF i = 1 THEN 0 ELSE colIndex + 1
         IN  <<[gridRow |-> r, gridCol |-> c, centroid |-> cents[i]]>>
                \o LabelCellsKeepCol(cents, i + 1, r, c)

RECURSIVE LabelCells(_, _, _, _)
LabelCells(cents, i, rowIndex, colIndex) ==
    IF i > Len(cents) THEN <<>>
    ELSE LET newRow == i > 1 /\ cents[i][1] # cents[i - 1][1]
             r == IF newRow THEN rowIndex + 1 ELSE rowIndex
             c == IF i = 1 THEN 0 ELSE IF newRow THEN 0 ELSE colIndex + 1
         IN  <<[gridRow |-> r, gridCol |-> c, centroid |-> cents[i]]>>
                \o LabelCells(cents, i + 1, r, c)

\* a cell label that does not look at the obstacles
MarkCellIgnoringObstacles(bnd, obstaclesPolygons, c) ==
    IF PolygonContainsPoint(turfBuffer(bnd, BufferDistance), c)
    THEN unvisited ELSE unvisitable

\* the label of one cell, from its centroid
MarkCell(bnd, obstaclesPolygons, c) ==
    IF PolygonContainsPoint(turfBuffer(bnd, BufferDistance), c)
    THEN IF \E k \in DOMAIN obstaclesPolygons :
               PolygonContainsPoint(obstaclesPolygons[k], c)
         THEN unvisitable ELSE unvisited
    ELSE unvisitable

getCoverageGrid(bnd, obs, mbb, laneWidth) ==
    LET obstaclesPolygons == IF obs = Null THEN <<>> ELSE obs
        grid == LabelCells(squareGrid(BBoxOf(mbb), laneWidth), 1, 0, 0)
    IN  [k \in DOMAIN grid |->
            [gridRow  |-> grid[k].gridRow,
             gridCol  |-> grid[k].gridCol,
             centroid |-> grid[k].centroid,
             visited  |-> MarkCell(bnd, obstaclesPolygons, grid[k].centroid)]]

-----------------------------------------------------------------------------
(* Forbidden region and clearance (isPathClear, boundaries.ts).            *)

\* turf.coordAll of a feature collection: every position of every ring
coordAll(obs) == FlattenSeq(obs)

\* the MultiPolygon both the sweep and the router build: the boundary's
\* ring, and ONE ring holding the positions of all obstacles
boundaryAndObstaclesOf(bnd, obs) ==
    << bnd, coordAll(IF obs = Null THEN <<>> ELSE obs) >>

\* turf.lineSplit(segment, polygons) has no feature: no position list of the
\* region has an edge that meets a segment of the line
isPathClear(line, polygonsToAvoid) ==
    \A i \in 1 .. (Len(line) - 1) :
        \A k \in DOMAIN polygonsToAvoid :
            \A e \in EdgesOf(polygonsToAvoid[k]) :
                ~SegmentsIntersect(line[i], line[i + 1], e[1], e[2])

-----------------------------------------------------------------------------
(* Point fingerprints and the Voronoi roadmap (voronoi-roadmap.ts).        *)

\* Number(v.toFixed(FIXED_PRECISION)): v rounded to the fingerprint grid
toFixed(v) ==
    IF v >= 0 THEN ((v + Grain \div 2) \div Grain) * Grain
    ELSE -(((-v + Grain \div 2) \div Grain) * Grain)

\* the key of a point: JSON.stringify(p.map(toFixed))
KeyOf(p) == <<toFixed(p[1]), toFixed(p[2])>>

\* segmentCoords.sort(...): by x, then by y, on the raw coordinates
SortedCoords(a, b) ==
    IF a[1] < b[1] \/ (a[1] = b[1] /\ a[2] <= b[2]) THEN <<a, b>> ELSE <<b, a>>

getSegmentKey(a, b) ==
    LET sortedCoords == SortedCoords(a, b)
    IN  <<KeyOf(sortedCoords[1]), KeyOf(sortedCoords[2])>>

\* closed segments p-q and a-b share a point
SegmentsTouch(p, q, a, b) ==
    LET o1 == CrossP(p, q, a)
        o2 == CrossP(p, q, b)
        o3 == CrossP(a, b, p)
        o4 == CrossP(a, b, q)
    IN  \/ /\ ((o1 > 0 /\ o2 < 0) \/ (o1 < 0 /\ o2 > 0))
           /\ ((o3 > 0 /\ o4 < 0) \/ (o3 < 0 /\ o4 > 0))
        \/ (o1 = 0 /\ OnSegment(a, p, q))
        \/ (o2 = 0 /\ OnSegment(b, p, q))
        \/ (o3 = 0 /\ OnSegment(p, a, b))
        \/ (o4 = 0 /\ OnSegment(q, a, b))

\* turf.booleanDisjoint(segment, polygon) is false
SegmentMeetsPolygon(a, b, ring) ==
    \/ \E e \in EdgesOf(ring) : SegmentsTouch(a, b, e[1], e[2])
    \/ PolygonContainsPoint(ring, a)
    \/ PolygonContainsPoint(ring, b)

isIntersectingObstacles(a, b, obs) ==
    \E k \in DOMAIN obs : SegmentMeetsPolygon(a, b, obs[k])

\* getVoronoiPoints: the positions of the boundary and of the obstacles,
\* the first of each fingerprint kept
RECURSIVE UniqueByKey(_, _)
UniqueByKey(points, seen) ==
    IF points = <<>> THEN <<>>
    ELSE IF KeyOf(Head(points)) \in seen THEN UniqueByKey(Tail(points), seen)
    ELSE <<Head(points)>> \o UniqueByKey(Tail(points), seen \cup {KeyOf(Head(points))})

getVoronoiPoints(bnd, obs) == UniqueByKey(bnd \o coordAll(obs), {})

\* turf.voronoi within the box, for the site sets of the model.  Four sites
\* at the corners of the box: the four quadrants.  Eight sites, the corners
\* of the box and of a rectangle inset by the same margin a on every side:
\* the corner sites own the triangles cut off by x + y = a and its mirror
\* images, the inner sites own the rest of their quadrant.  Cells come in
\* the order of their sites, each a closed ring.
turfVoronoi(sites, box) ==
    LET x1 == box.x1
        y1 == box.y1
        x2 == box.x2
        y2 == box.y2
        mx == (x1 + x2) \div 2
        my == (y1 + y2) \div 2
    IN  IF Len(sites) = 4
        THEN << << <<x1, y1>>, <<mx, y1>>, <<mx, my>>, <<x1, my>>, <<x1, y1>> >>,
                << <<x2, y1>>, <<x2, my>>, <<mx, my>>, <<mx, y1>>, <<x2, y1>> >>,
                << <<x2, y2>>, <<mx, y2>>, <<mx, my>>, <<x2, my>>, <<x2, y2>> >>,
                << <<x1, y2>>, <<x1, my>>, <<mx, my>>, <<mx, y2>>, <<x1, y2>> >> >>
        ELSE LET a == sites[5][1] - x1
             IN << << <<x1, y1>>, <<x1 + a, y1>>, <<x1, y1 + a>>, <<x1, y1>> >>,
                   << <<x2, y1>>, <<x2, y1 + a>>, <<x2 - a, y1>>, <<x2, y1>> >>,
                   << <<x2, y2>>, <<x2 - a, y2>>, <<x2, y2 - a>>, <<x2, y2>> >>,
                   << <<x1, y2>>, <<x1, y2 - a>>, <<x1 + a, y2>>, <<x1, y2>> >>,
                   << <<x1 + a, y1>>, <<mx, y1>>, <<mx, my>>, <<x1, my>>,
                      <<x1, y1 + a>>, <<x1 + a, y1>> >>,
                   << <<x2 - a, y1>>, <<x2, y1 + a>>, <<x2, my>>, <<mx, my>>,
                      <<mx, y1>>, <<x2 - a, y1>> >>,
                   << <<x2, y2 - a>>, <<x2 - a, y2>>, <<mx, y2>>, <<mx, my>>,
                      <<x2, my>>, <<x2, y2 - a>> >>,
                   << <<x1 + a, y2>>, <<x1, y2 - a>>, <<x1, my>>, <<mx, my>>,
                      <<mx, y2>>, <<x1 + a, y2>> >> >>

\* a cell's ring after the clip to the boundary: every cell of the model
\* holds its site, so none is disjoint from the boundary, and lies within
\* the boundary's box, so that turf.intersect returns the cell itself
ClipToBoundary(polygon, bnd) == polygon

\* the edge extraction over one ring, from position i on: st holds the kept
\* segments and the set of their keys
RECURSIVE ExtractSegments(_, _, _, _)
ExtractSegments(coordinates, i, obs, st) ==
    IF i > Len(coordinates) - 1 THEN st
    ELSE LET a == coordinates[i]
             b == coordinates[i + 1]
             segmentKey == getSegmentKey(a, b)
         IN  IF isIntersectingObstacles(a, b, obs) \/ segmentKey \in st.segmentSet
             THEN ExtractSegments(coordinates, i + 1, obs, st)
             ELSE ExtractSegments(coordinates, i + 1, obs,
                     [segments   |-> Append(st.segments, SortedCoords(a, b)),
                      segmentSet |-> st.segmentSet \cup {segmentKey}])

RECURSIVE ExtractAll(_, _, _, _)
ExtractAll(polygons, bnd, obs, st) ==
    IF polygons = <<>> THEN st
    ELSE ExtractAll(Tail(polygons), bnd, obs,
            ExtractSegments(ClipToBoundary(Head(polygons), bnd), 1, obs, st))

\* how often a key is an endpoint among the first n segments
EndpointCount(segments, n, key) ==
    Cardinality({i \in 1 .. n : KeyOf(segments[i][1]) = key})
      + Cardinality({i \in 1 .. n : KeyOf(segments[i][2]) = key})

\* identifyBranchPoints: the keys met more than twice, in the order in which
\* the count first passes 2
RECURSIVE identifyBranchPoints(_, _, _)
identifyBranchPoints(segments, i, found) ==
    IF i > Len(segments) THEN found
    ELSE LET startKey == KeyOf(segments[i][1])
             endKey == KeyOf(segments[i][2])
             afterStart ==
                 IF EndpointCount(segments, i - 1, startKey) + 1 > 2
                    /\ startKey \notin Range(found)
                 THEN Append(found, startKey) ELSE found
             endCount == EndpointCount(segments, i - 1, endKey)
                            + (IF endKey = startKey THEN 2 ELSE 1)
             afterEnd ==
                 IF endCount > 2 /\ endKey \notin Range(afterStart)
                 THEN Append(afterStart, endKey) ELSE afterStart
         IN  identifyBranchPoints(segments, i + 1, afterEnd)

\* adjacencyList.get(key): the segments with an endpoint of that key, a
\* segment whose two endpoints share the key twice
RECURSIVE AdjacentSegments(_, _)
AdjacentSegments(segments, key) ==
    IF segments = <<>> THEN <<>>
    ELSE LET seg == Head(segments)
         IN  (IF KeyOf(seg[1]) = key THEN <<seg>> ELSE <<>>)
               \o (IF KeyOf(seg[2]) = key THEN <<seg>> ELSE <<>>)
               \o AdjacentSegments(Tail(segments), key)

\* the for loop over the edges of one popped stack entry
RECURSIVE JoinEdges(_, _, _, _, _)
JoinEdges(edges, key, pathSoFar, branchKeys, st) ==
    IF edges = <<>> THEN st
    ELSE LET start == Head(edges)[1]
             end == Head(edges)[2]
             startKey == KeyOf(start)
             endKey == KeyOf(end)
             edgeKey == getSegmentKey(start, end)
         IN  IF edgeKey \in st.visitedSegments
             THEN JoinEdges(Tail(edges), key, pathSoFar, branchKeys, st)
             ELSE LET nextKey == IF key = startKey THEN endKey ELSE startKey
                      newPath == IF key = startKey THEN Append(pathSoFar, end)
                                 ELSE Append(pathSoFar, start)
                      seen == st.visitedSegments \cup {edgeKey}
                  IN  JoinEdges(Tail(edges), key, pathSoFar, branchKeys,
                         IF nextKey \in branchKeys
                         THEN [st EXCEPT !.visitedSegments = seen,
                                         !.connectedSegments = Append(@, newPath)]
                         ELSE [st EXCEPT !.visitedSegments = seen,
                                         !.stack = Append(@, [key |-> nextKey,
                                                              path |-> newPath])])

\* the while loop over the stack
RECURSIVE JoinStack(_, _, _)
JoinStack(segments, branchKeys, st) ==
    IF st.stack = <<>> THEN st
    ELSE LET top == Last(st.stack)
             popped == [st EXCEPT !.stack = SubSeq(@, 1, Len(@) - 1)]
         IN  JoinStack(segments, branchKeys,
                JoinEdges(AdjacentSegments(segments, top.key), top.key, top.path,
                          branchKeys, popped))

\* branchPoints.forEach: each search starts at the branch point's KEY, read
\* back as a position
RECURSIVE JoinFrom(_, _, _, _)
JoinFrom(segments, branchPoints, i, st) ==
    IF i > Len(branchPoints) THEN st
    ELSE JoinFrom(segments, branchPoints, i + 1,
            JoinStack(segments, Range(branchPoints),
                [st EXCEPT !.stack = << [key |-> branchPoints[i],
                                         path |-> <<branchPoints[i]>>] >>]))

joinSegments(segments, branchPoints) ==
    JoinFrom(segments, branchPoints, 1,
        [stack |-> <<>>, visitedSegments |-> {},
         connectedSegments |-> <<>>]).connectedSegments

\* the segments kept by the edge extraction
RoadmapSegments(bnd, obs) ==
    LET obsFC == IF obs = Null THEN <<>> ELSE obs
        voronoiPolygons == turfVoronoi(getVoronoiPoints(bnd, obsFC), BBoxOf(bnd))
    IN  ExtractAll(voronoiPolygons, bnd, obsFC,
                   [segments |-> <<>>, segmentSet |-> {}]).segments

calculateVoronoiRoadmap(bnd, obs) ==
    LET segments == RoadmapSegments(bnd, obs)
    IN  joinSegments(segments, identifyBranchPoints(segments, 1, <<>>))

-----------------------------------------------------------------------------
(* Adjacency graph and Dijkstra (voronoi-roadmap.ts).                      *)

\* integer square root: the largest r in lo .. hi with r * r <= n
RECURSIVE SqrtSearch(_, _, _)
SqrtSearch(n, lo, hi) ==
    IF lo >= hi THEN lo
    ELSE LET mid == (lo + hi + 1) \div 2
         IN  IF mid * mid <= n THEN SqrtSearch(n, mid, hi)
             ELSE SqrtSearch(n, lo, mid - 1)

\* the length of the segment a-b in tenths of a model unit, rounded down
SegmentLength(a, b) ==
    SqrtSearch(100 * Dist2(a, b), 0,
               10 * (Abs(a[1] - b[1]) + Abs(a[2] - b[2])))

\* turf.length of a polyline
RECURSIVE turfLength(_)
turfLength(line) ==
    IF Len(line) < 2 THEN 0
    ELSE SegmentLength(line[1], line[2]) + turfLength(Tail(line))

\* the nodes of the graph: the keys of the first and last position of every road
GraphNodes(roads) ==
    {KeyOf(roads[i][1]) : i \in DOMAIN roads}
       \cup {KeyOf(Last(roads[i])) : i \in DOMAIN roads}

\* the out-edges of one node, in the order in which the roads insert them
RECURSIVE OutEdges(_, _)
OutEdges(roads, key) ==
    IF roads = <<>> THEN <<>>
    ELSE LET road == Head(roads)
             startKey == KeyOf(road[1])
             endKey == KeyOf(Last(road))
             distance == turfLength(road)
         IN  (IF startKey = key
                THEN <<[node |-> endKey, distance |-> distance, path |-> road]>>
                ELSE <<>>)
             \o (IF endKey = key
                   THEN <<[node |-> startKey, distance |-> distance,
                           path |-> Reverse(road)]>>
                   ELSE <<>>)
             \o OutEdges(Tail(roads), key)

calculateAdjacencyGraph(roads) ==
    [key \in GraphNodes(roads) |-> OutEdges(roads, key)]

\* the distance of a node not yet reached
Infinity == -1

IsLess(a, b) == b = Infinity \/ (a # Infinity /\ a < b)

\* a queue that is not sorted: the entry pushed first
OldestIndex(pq) == 1

\* pq.sort by distance (stable) and pq.shift: the first entry of least distance
MinIndex(pq) ==
    CHOOSE i \in DOMAIN pq :
        /\ \A j \in DOMAIN pq : pq[i][2] <= pq[j][2]
        /\ \A j \in 1 .. (i - 1) : pq[j][2] > pq[i][2]

RemoveAt(s, i) == SubSeq(s, 1, i - 1) \o SubSeq(s, i + 1, Len(s))

\* the forEach over the neighbours of the current node
RECURSIVE Relax(_, _, _, _)
Relax(edges, currentNode, currentDistance, st) ==
    IF edges = <<>> THEN st
    ELSE LET e == Head(edges)
             totalDistance == currentDistance + e.distance
         IN  Relax(Tail(edges), currentNode, currentDistance,
                IF IsLess(totalDistance, st.distances[e.node])
                THEN [distances |-> [st.distances EXCEPT ![e.node] = totalDistance],
                      previous  |-> [st.previous EXCEPT
                                        ![e.node] = <<[node |-> currentNode,
                                                       path |-> e.path]>>],
                      pq        |-> Append(st.pq, <<e.node, totalDistance>>)]
                ELSE st)

\* a walk back that puts each stored polyline behind the ones of the edges
\* that follow it
RECURSIVE ReconstructBackwards(_, _, _)
ReconstructBackwards(previous, node, fullPath) ==
    IF previous[node] = None THEN fullPath
    ELSE ReconstructBackwards(previous, previous[node][1].node,
                              fullPath \o previous[node][1].path)

\* the walk back from the end over previous, each stored polyline put in front
RECURSIVE Reconstruct(_, _, _)
Reconstruct(previous, node, fullPath) ==
    IF previous[node] = None THEN fullPath
    ELSE Reconstruct(previous, previous[node][1].node,
                     previous[node][1].path \o fullPath)

\* turf.lineString: throws with fewer than two positions
turfLineString(coords) ==
    IF Len(coords) < 2 THEN [threw |-> TRUE, line |-> Null]
    ELSE [threw |-> FALSE, line |-> coords]

RECURSIVE DijkstraLoop(_, _, _)
DijkstraLoop(graph, endKey, st) ==
    IF st.pq = <<>> THEN [threw |-> FALSE, line |-> Null]
    ELSE LET i == MinIndex(st.pq)
             currentNode == st.pq[i][1]
             currentDistance == st.distances[currentNode]
             rest == [st EXCEPT !.pq = RemoveAt(@, i)]
         IN  IF currentNode = endKey
             THEN turfLineString(Reconstruct(st.previous, endKey, <<>>))
             ELSE DijkstraLoop(graph, endKey,
                     Relax(graph[currentNode], currentNode, currentDistance, rest))

getDijkstraPath(graph, start, end) ==
    LET startKey == KeyOf(start)
        endKey == KeyOf(end)
    IN  IF startKey \notin DOMAIN graph \/ endKey \notin DOMAIN graph
        THEN [threw |-> FALSE, line |-> Null]
        ELSE DijkstraLoop(graph, endKey,
                [distances |-> [n \in DOMAIN graph |->
                                   IF n = startKey THEN 0 ELSE Infinity],
                 previous  |-> [n \in DOMAIN graph |-> None],
                 pq        |-> << <<startKey, 0>> >>])

-----------------------------------------------------------------------------
(* The clear-path router (calculateClearPath, voronoi-roadmap.ts).         *)

\* the point of the closed segment a-b nearest to p, to the model unit
NearestOnSegment(p, a, b) ==
    LET len2 == Dist2(a, b)
        t    == (p[1] - a[1]) * (b[1] - a[1]) + (p[2] - a[2]) * (b[2] - a[2])
    IN  IF len2 = 0 \/ t <= 0 THEN a
        ELSE IF t >= len2 THEN b
        ELSE << a[1] + ((b[1] - a[1]) * t) \div len2,
                a[2] + ((b[2] - a[2]) * t) \div len2 >>

\* turf.nearestPointOnLine: the nearest point over the segments of the road,
\* the first segment winning a tie; index is the segment it lies on
RECURSIVE NearestFrom(_, _, _, _)
NearestFrom(road, p, i, best) ==
    IF i > Len(road) - 1 THEN best
    ELSE LET c == NearestOnSegment(p, road[i], road[i + 1])
         IN  NearestFrom(road, p, i + 1,
                IF best = None \/ Dist2(p, c) < Dist2(p, best[1].coordinates)
                THEN <<[coordinates |-> c, index |-> i]>> ELSE best)

nearestPointOnLine(road, p) == NearestFrom(road, p, 1, None)[1]

\* the forEach over the roads for one end of the route: the shortest clear
\* stitch, the first road winning a tie.  toRoad is TRUE for the start
\* (stitch from the point to the road), FALSE for the end.
RECURSIVE ShortestStitch(_, _, _, _, _, _)
ShortestStitch(roads, i, p, toRoad, polygonsToAvoid, best) ==
    IF i > Len(roads) THEN best
    ELSE LET try == nearestPointOnLine(roads[i], p)
             tryPath == IF toRoad THEN <<p, try.coordinates>>
                        ELSE <<try.coordinates, p>>
             distance == Dist2(p, try.coordinates)
         IN  ShortestStitch(roads, i + 1, p, toRoad, polygonsToAvoid,
                IF (best = None \/ distance < best[1].distance)
                   /\ isPathClear(tryPath, polygonsToAvoid)
                THEN <<[distance |-> distance, path |-> tryPath,
                        roadSegment |-> i, on |-> try]>>
                ELSE best)

\* the direction of a stitch from p to its point on the road; turf.bearing
\* of a point to itself is 0, which is north
StitchDirection(p, on) ==
    IF p = on THEN <<0, 1>> ELSE <<on[1] - p[1], on[2] - p[2]>>

NotParallel(d, a, b) ==
    d[1] * (b[2] - a[2]) - d[2] * (b[1] - a[1]) # 0

\* turf.lineIntersect(road, splitter): the splitter runs from p through the
\* stitch's point on the road to 1 cm beyond it, so it meets the road at that
\* point when a segment of the road through the point is not parallel to it
SplitterMeetsRoad(road, p, on) ==
    LET d == StitchDirection(p, on.coordinates)
        i == on.index
    IN  \/ NotParallel(d, road[i], road[i + 1])
        \/ /\ on.coordinates = road[i + 1] /\ i + 1 < Len(road)
           /\ NotParallel(d, road[i + 1], road[i + 2])
        \/ /\ on.coordinates = road[i] /\ i > 1
           /\ NotParallel(d, road[i - 1], road[i])

\* turf.lineSplit(road, splitter): nothing when the splitter does not meet
\* the road, the road itself when they meet at one of its ends, otherwise
\* the two pieces on either side of the point
lineSplit(road, p, on) ==
    IF ~SplitterMeetsRoad(road, p, on) THEN <<>>
    ELSE IF on.coordinates = road[1] \/ on.coordinates = Last(road) THEN <<road>>
    ELSE LET i == on.index
             c == on.coordinates
         IN  << Append(SubSeq(road, 1, i), c),
                IF c = road[i + 1] THEN SubSeq(road, i + 1, Len(road))
                ELSE <<c>> \o SubSeq(road, i + 1, Len(road)) >>

\* the roads that are neither the start's nor the end's road
RECURSIVE OtherRoads(_, _, _, _)
OtherRoads(roads, i, startRoadSegment, endRoadSegment) ==
    IF i > Len(roads) THEN <<>>
    ELSE (IF i = startRoadSegment \/ i = endRoadSegment THEN <<>>
          ELSE <<roads[i]>>)
         \o OtherRoads(roads, i + 1, startRoadSegment, endRoadSegment)

\* the reduce that drops a position whose key equals its predecessor's
RECURSIVE FilterDuplicates(_, _)
FilterDuplicates(coords, acc) ==
    IF coords = <<>> THEN acc
    ELSE FilterDuplicates(Tail(coords),
            IF acc = <<>> \/ KeyOf(Last(acc)) # KeyOf(Head(coords))
            THEN Append(acc, Head(coords)) ELSE acc)

\* the roadmap the route is searched in
tempVoronoiRoadmap(roads, start, end, startStitch, endStitch) ==
    OtherRoads(roads, 1, startStitch.roadSegment, endStitch.roadSegment)
      \o lineSplit(roads[startStitch.roadSegment], start, startStitch.on)
      \o lineSplit(roads[endStitch.roadSegment], end, endStitch.on)
      \o <<startStitch.path, endStitch.path>>

\* the end of calculateClearPath: the route found, without the positions
\* that repeat their predecessor's key
FilteredRoute(dijkstraPath) ==
    IF dijkstraPath.threw \/ dijkstraPath.line = Null THEN dijkstraPath
    ELSE turfLineString(FilterDuplicates(dijkstraPath.line, <<>>))

\* a search that goes on with whatever stitches there are, here none
StitchedRouteUnguarded(roads, start, end, startStitch, endStitch) ==
    IF startStitch = None \/ endStitch = None
    THEN [threw |-> FALSE, line |-> <<start, end>>]
    ELSE FilteredRoute(
            getDijkstraPath(
               calculateAdjacencyGraph(
                  tempVoronoiRoadmap(roads, start, end, startStitch[1], endStitch[1])),
               start, end))

\* the search once both stitches are chosen
StitchedRoute(roads, start, end, startStitch, endStitch) ==
    IF startStitch = None \/ endStitch = None
    THEN [threw |-> FALSE, line |-> Null]
    ELSE FilteredRoute(
            getDijkstraPath(
               calculateAdjacencyGraph(
                  tempVoronoiRoadmap(roads, start, end, startStitch[1], endStitch[1])),
               start, end))

\* the route over the roadmap, when the direct line is not clear
RoadmapRoute(roads, start, end, polygonsToAvoid) ==
    StitchedRoute(roads, start, end,
        ShortestStitch(roads, 1, start, TRUE, polygonsToAvoid, None),
        ShortestStitch(roads, 1, end, FALSE, polygonsToAvoid, None))

calculateClearPath(roads, start, end, bnd, obs) ==
    IF isPathClear(<<start, end>>, boundaryAndObstaclesOf(bnd, obs))
    THEN [threw |-> FALSE, line |-> <<start, end>>]
    ELSE RoadmapRoute(roads, start, end, boundaryAndObstaclesOf(bnd, obs))

-----------------------------------------------------------------------------
(* The sweep (calculateMowPath, mow-path.ts).                              *)

getRowCount(grid) == Cardinality({grid[k].gridRow : k \in DOMAIN grid})

\* Array.filter: the indices at which a sequence of flags is TRUE, in order
RECURSIVE FilterCells(_, _)
FilterCells(keep, i) ==
    IF i > Len(keep) THEN <<>>
    ELSE (IF keep[i] THEN <<i>> ELSE <<>>) \o FilterCells(keep, i + 1)

UnvisitedCells(grid) ==
    FilterCells([k \in DOMAIN grid |-> grid[k].visited = unvisited], 1)

\* the unvisited cells of a row in the order of the grid, on every row
RowOfOneWay(grid, rowIndex) ==
    FilterCells([k \in DOMAIN grid |->
                    /\ grid[k].gridRow = rowIndex
                    /\ grid[k].visited = unvisited], 1)

\* the unvisited cells of a row, reversed on odd rows
RowOf(grid, rowIndex) ==
    LET row == FilterCells([k \in DOMAIN grid |->
                               /\ grid[k].gridRow = rowIndex
                               /\ grid[k].visited = unvisited], 1)
    IN  IF rowIndex % 2 = 1 THEN Reverse(row) ELSE row

\* a sweep that takes the cells it passes out of the grid
MarkUnvisitable(grid, k) == [grid EXCEPT ![k].visited = unvisitable]

\* a sweep that emits its waypoints and marks nothing
MarkNothing(grid, k) == grid

\* the sweep marks the cell at position k of the grid visited
MarkVisited(grid, k) == [grid EXCEPT ![k].visited = visited]

\* the entry scan: the first cell of the row with a clear segment from the
\* previous end point, or 0 when there is none
RECURSIVE EntryIndex(_, _, _, _, _)
EntryIndex(grid, row, i, prevEndPoint, boundaryAndObstacles) ==
    IF i > Len(row) THEN 0
    ELSE IF isPathClear(<<prevEndPoint, grid[row[i]].centroid>>, boundaryAndObstacles)
    THEN i
    ELSE EntryIndex(grid, row, i + 1, prevEndPoint, boundaryAndObstacles)

\* the unvisited cells of the previous row within one column of the cell
NearbyUnvisited(grid, rowIndex, cell) ==
    Cardinality({k \in DOMAIN grid :
        /\ grid[k].visited = unvisited
        /\ grid[k].gridRow = rowIndex - 1
        /\ Abs(grid[k].gridCol - cell.gridCol) <= 1})

\* a traversal that goes on over a gap in the row
RECURSIVE TraverseAcrossGaps(_, _, _, _, _)
TraverseAcrossGaps(grid, row, i, rowIndex, waypoints) ==
    IF i > Len(row)
    THEN [grid |-> grid, waypoints |-> waypoints, returned |-> FALSE]
    ELSE IF NearbyUnvisited(grid, rowIndex, grid[row[i]]) >= 2
    THEN [grid |-> MarkVisited(grid, row[i]),
          waypoints |-> Append(waypoints, grid[row[i]].centroid),
          returned |-> TRUE]
    ELSE TraverseAcrossGaps(MarkVisited(grid, row[i]), row, i + 1, rowIndex,
                            IF i = Len(row)
                            THEN Append(waypoints, grid[row[i]].centroid)
                            ELSE waypoints)

\* a traversal that does not look at the row above
RECURSIVE TraverseWithoutReturn(_, _, _, _, _)
TraverseWithoutReturn(grid, row, i, rowIndex, waypoints) ==
    IF i > Len(row)
    THEN [grid |-> grid, waypoints |-> waypoints, returned |-> FALSE]
    ELSE IF Abs(grid[row[i]].gridCol - grid[row[i - 1]].gridCol) > 1
    THEN [grid |-> grid,
          waypoints |-> Append(waypoints, grid[row[i - 1]].centroid),
          returned |-> FALSE]
    ELSE TraverseWithoutReturn(MarkVisited(grid, row[i]), row, i + 1, rowIndex,
                               IF i = Len(row)
                               THEN Append(waypoints, grid[row[i]].centroid)
                               ELSE waypoints)

\* a traversal that ends a row at a gap with the cell beyond the gap
RECURSIVE TraverseOverTheGap(_, _, _, _, _)
TraverseOverTheGap(grid, row, i, rowIndex, waypoints) ==
    IF i > Len(row)
    THEN [grid |-> grid, waypoints |-> waypoints, returned |-> FALSE]
    ELSE IF Abs(grid[row[i]].gridCol - grid[row[i - 1]].gridCol) > 1
    THEN [grid |-> grid,
          waypoints |-> Append(waypoints, grid[row[i]].centroid),
          returned |-> FALSE]
    ELSE IF NearbyUnvisited(grid, rowIndex, grid[row[i]]) >= 2
    THEN [grid |-> MarkVisited(grid, row[i]),
          waypoints |-> Append(waypoints, grid[row[i]].centroid),
          returned |-> TRUE]
    ELSE TraverseOverTheGap(MarkVisited(grid, row[i]), row, i + 1, rowIndex,
                            IF i = Len(row)
                            THEN Append(waypoints, grid[row[i]].centroid)
                            ELSE waypoints)

\* the traversal of the remainder of a row, from position i of the row on
RECURSIVE Traverse(_, _, _, _, _)
Traverse(grid, row, i, rowIndex, waypoints) ==
    IF i > Len(row)
    THEN [grid |-> grid, waypoints |-> waypoints, returned |-> FALSE]
    ELSE LET cell == grid[row[i]]
             prevCell == grid[row[i - 1]]
         IN  IF Abs(cell.gridCol - prevCell.gridCol) > 1
             THEN [grid |-> grid,
                   waypoints |-> Append(waypoints, prevCell.centroid),
                   returned |-> FALSE]
             ELSE IF NearbyUnvisited(grid, rowIndex, cell) >= 2
             THEN [grid |-> MarkVisited(grid, row[i]),
                   waypoints |-> Append(waypoints, cell.centroid),
                   returned |-> TRUE]
             ELSE Traverse(MarkVisited(grid, row[i]), row, i + 1, rowIndex,
                           IF i = Len(row) THEN Append(waypoints, cell.centroid)
                           ELSE waypoints)

RECURSIVE RowLoop(_, _, _, _, _)

\* a row after its traversal: the pass returns, or goes on to the next row
AfterRow(entered, rowIndex, rowCount, boundaryAndObstacles) ==
    IF entered.returned
    THEN [grid |-> entered.grid, waypoints |-> entered.waypoints]
    ELSE RowLoop(entered.grid, rowIndex + 1, rowCount, entered.waypoints,
                 boundaryAndObstacles)

\* the body of the row loop once the entry is known: startIndex is 0 when
\* the row is skipped, otherwise the entry cell is visited and emitted and
\* the rest of the row traversed
RowBody(grid, row, startIndex, rowIndex, waypoints) ==
    IF startIndex = 0
    THEN [grid |-> grid, waypoints |-> waypoints, returned |-> FALSE]
    ELSE Traverse(MarkVisited(grid, row[startIndex]), row, startIndex + 1,
                  rowIndex, Append(waypoints, grid[row[startIndex]].centroid))

\* a row and the rows after it
EnterRow(grid, row, startIndex, rowIndex, rowCount, waypoints, boundaryAndObstacles) ==
    AfterRow(RowBody(grid, row, startIndex, rowIndex, waypoints),
             rowIndex, rowCount, boundaryAndObstacles)

\* the entry into a row: the first cell when the pass has no waypoint yet,
\* otherwise the first cell with a clear segment from the last waypoint
StartIndex(grid, row, waypoints, boundaryAndObstacles) ==
    IF row = <<>> THEN 0
    ELSE IF Len(waypoints) > 0
    THEN EntryIndex(grid, row, 1, Last(waypoints), boundaryAndObstacles)
    ELSE 1

ScanRow(grid, row, rowIndex, rowCount, waypoints, boundaryAndObstacles) ==
    EnterRow(grid, row, StartIndex(grid, row, waypoints, boundaryAndObstacles),
             rowIndex, rowCount, waypoints, boundaryAndObstacles)

\* the for loop over the rows
RowLoop(grid, rowIndex, rowCount, waypoints, boundaryAndObstacles) ==
    IF rowIndex >= rowCount THEN [grid |-> grid, waypoints |-> waypoints]
    ELSE ScanRow(grid, RowOf(grid, rowIndex), rowIndex, rowCount, waypoints,
                 boundaryAndObstacles)

\* the result of a pass: the path, the grid, and what the resume step did
\* (first: no path was given, none: no unvisited cell, failed: the router
\* returned null, routed: a route was appended)
PassResult(coordinates, swept, resume) ==
    [path |-> coordinates \o swept.waypoints, grid |-> swept.grid,
     resume |-> resume, threw |-> FALSE]

\* the rows of one pass, appended to the coordinates the pass starts from
Sweep(coordinates, bnd, obs, grid, resume) ==
    PassResult(coordinates,
               RowLoop(grid, 0, getRowCount(grid), <<>>,
                       boundaryAndObstaclesOf(bnd, obs)),
               resume)

\* a resume step that sweeps on although the router found no route
ResumeSweepingOn(pathIn, bnd, obs, grid, pathToStart) ==
    IF pathToStart.threw
    THEN [path |-> pathIn, grid |-> grid, resume |-> "threw", threw |-> TRUE]
    ELSE IF pathToStart.line = Null
    THEN Sweep(pathIn, bnd, obs, grid, "failed")
    ELSE Sweep(pathIn \o pathToStart.line, bnd, obs, grid, "routed")

\* the pass after the resume route was asked for
Resume(pathIn, bnd, obs, grid, pathToStart) ==
    IF pathToStart.threw
    THEN [path |-> pathIn, grid |-> grid, resume |-> "threw", threw |-> TRUE]
    ELSE IF pathToStart.line = Null
    THEN [path |-> pathIn, grid |-> grid, resume |-> "failed", threw |-> FALSE]
    ELSE Sweep(pathIn \o pathToStart.line, bnd, obs, grid, "routed")

\* the resume step: towards the first unvisited cell of the grid
ResumeSweep(pathIn, bnd, obs, roadmap, grid, unvisitedCells) ==
    IF Len(unvisitedCells) = 0
    THEN [path |-> pathIn, grid |-> grid, resume |-> "none", threw |-> FALSE]
    ELSE Resume(pathIn, bnd, obs, grid,
                calculateClearPath(roadmap, Last(pathIn),
                                   grid[unvisitedCells[1]].centroid, bnd, obs))

calculateMowPath(pathIn, bnd, obs, roadmap, grid) ==
    IF pathIn = Null THEN PassResult(<<>>,
                             RowLoop(grid, 0, getRowCount(grid), <<>>,
                                     boundaryAndObstaclesOf(bnd, obs)),
                             "first")
    ELSE ResumeSweep(pathIn, bnd, obs, roadmap, grid, UnvisitedCells(grid))

\* a prune step that also keeps a position at exactly pruneDistance
RECURSIVE PruneReduceAtLeast(_, _, _)
PruneReduceAtLeast(coords, pruneDistance, acc) ==
    IF coords = <<>> THEN acc
    ELSE PruneReduceAtLeast(Tail(coords), pruneDistance,
            IF acc = <<>> \/ Dist2(Last(acc), Head(coords)) >= pruneDistance * pruneDistance
            THEN Append(acc, Head(coords)) ELSE acc)

\* pruneExcessPoints: a position is kept when it is more than pruneDistance
\* from the last kept one
RECURSIVE PruneReduce(_, _, _)
PruneReduce(coords, pruneDistance, acc) ==
    IF coords = <<>> THEN acc
    ELSE PruneReduce(Tail(coords), pruneDistance,
            IF acc = <<>> \/ Dist2(Last(acc), Head(coords)) > pruneDistance * pruneDistance
            THEN Append(acc, Head(coords)) ELSE acc)

\* a prune step that measures from the vertex before, kept or not
RECURSIVE FarFromPrevious(_, _, _)
FarFromPrevious(coords, pruneDistance, i) ==
    IF i > Len(coords) THEN <<>>
    ELSE (IF i = 1 \/ Dist2(coords[i - 1], coords[i]) > pruneDistance * pruneDistance
          THEN <<coords[i]>> ELSE <<>>)
         \o FarFromPrevious(coords, pruneDistance, i + 1)

pruneAgainstPrevious(pathIn, pruneDistance) ==
    IF pathIn = Null THEN [threw |-> FALSE, line |-> Null]
    ELSE turfLineString(FarFromPrevious(pathIn, pruneDistance, 1))

\* pruneExcessPoints: null for no path, else turf.lineString of the kept ones
pruneExcessPoints(pathIn, pruneDistance) ==
    IF pathIn = Null THEN [threw |-> FALSE, line |-> Null]
    ELSE turfLineString(PruneReduce(pathIn, pruneDistance, <<>>))

-----------------------------------------------------------------------------
(* Coverage and path markers (App.tsx, path-markers.ts).                   *)

\* a coverage ratio that counts the unvisitable cells in the denominator
getCoverageOfAllCells(grid) ==
    [num |-> Cardinality({k \in DOMAIN grid : grid[k].visited = visited}),
     den |-> Len(grid)]

\* getCoverage: visited / (unvisited + visited), as a fraction
getCoverage(grid) ==
    LET unvisitedCells == Cardinality({k \in DOMAIN grid : grid[k].visited = unvisited})
        visitedCells == Cardinality({k \in DOMAIN grid : grid[k].visited = visited})
    IN  [num |-> visitedCells, den |-> unvisitedCells + visitedCells]

\* getCoverage() < 0.99; 0 / 0 is NaN, which is below nothing
CoverageBelowTarget(grid) ==
    LET c == getCoverage(grid)
    IN  c.den > 0 /\ 100 * c.num < 99 * c.den

\* the arrows of createPathMarkers: one at the midpoint of every segment
\* longer than four lane widths
RECURSIVE ArrowMarkers(_, _)
ArrowMarkers(coords, laneWidth) ==
    IF Len(coords) < 2 THEN <<>>
    ELSE (IF Dist2(coords[1], coords[2]) > 16 * laneWidth * laneWidth
          THEN <<[kind |-> "arrow",
                  at |-> <<(coords[1][1] + coords[2][1]) \div 2,
                           (coords[1][2] + coords[2][2]) \div 2>>]>>
          ELSE <<>>)
         \o ArrowMarkers(Tail(coords), laneWidth)

createPathMarkers(line, laneWidth) ==
    IF Len(line) < 2 THEN <<>>
    ELSE <<[kind |-> "start", at |-> line[1]], [kind |-> "end", at |-> Last(line)]>>
           \o ArrowMarkers(line, laneWidth)

-----------------------------------------------------------------------------
(* The uploads of the model.                                               *)

\* a boundary of one cell; one of 4 x 2 cells; one of 4 x 4 cells; one of
\* 5 x 4 cells; one that is no multiple of the fingerprint grid; a ring
\* without area
SmallYard == RingOf(Rect(0, 0, 100, 100))
LongYard == RingOf(Rect(0, 0, 400, 200))
SquareYard == RingOf(Rect(0, 0, 400, 400))
WideYard == RingOf(Rect(0, 0, 500, 400))
OddYard == RingOf(Rect(0, 0, 406, 406))
FlatYard == << <<0, 0>>, <<100, 0>>, <<0, 0>> >>

\* a bar between the two cell lines of LongYard; a block over the middle of
\* SquareYard, of WideYard and of OddYard; an obstacle that covers every
\* yard; one that lies outside every yard
Bar == RingOf(Rect(80, 80, 320, 120))
Block == RingOf(Rect(80, 80, 320, 320))
WideBlock == RingOf(Rect(80, 80, 420, 320))
OddBlock == RingOf(Rect(84, 84, 322, 322))
Cover == RingOf(Rect(-100, -100, 600, 600))
Far == RingOf(Rect(700, 700, 800, 800))

Yards == {SmallYard, LongYard, SquareYard, WideYard, OddYard, FlatYard}

ObstacleFiles == {<<>>, <<Bar>>, <<Block>>, <<WideBlock>>, <<OddBlock>>,
                  <<Cover>>, <<Far>>, <<Bar, Far>>}

\* the pairs of uploads whose Voronoi diagram the model knows: no obstacle
\* within the boundary, or the one that is inset by the same margin on
\* every side
Supported(bounds, obs) ==
    IF bounds = Null \/ obs = Null THEN TRUE
    ELSE IF bounds = FlatYard THEN obs = <<>>
    ELSE IF \A i \in DOMAIN obs : obs[i] \in {Cover, Far} THEN TRUE
    ELSE IF bounds = LongYard THEN obs \in {<<Bar>>, <<Bar, Far>>}
    ELSE IF bounds = SquareYard THEN obs = <<Block>>
    ELSE IF bounds = WideYard THEN obs = <<WideBlock>>
    ELSE bounds = OddYard /\ obs = <<OddBlock>>

-----------------------------------------------------------------------------
(* The planner: uploads trigger the effect, which runs generateAll.        *)

\* the derived values other parts of the program read
Published ==
    [boundary |-> boundary, obstacles |-> obstacles, convexHull |-> convexHull,
     minBoundingBox |-> minBoundingBox, coverageGrid |-> coverageGrid,
     voronoiPaths |-> voronoiPaths, mowPath |-> mowPath,
     pathMarkers |-> pathMarkers]

NoPass == [resume |-> "idle", pathIn |-> Null, pathOut |-> Null,
           gridIn |-> <<>>, gridOut |-> <<>>]

Init ==
    /\ rawBoundary = Null /\ rawObstacles = Null
    /\ boundary = Null /\ obstacles = Null /\ convexHull = Null
    /\ minBoundingBox = Null /\ coverageGrid = Null /\ voronoiPaths = Null
    /\ mowPath = Null /\ pathMarkers = Null
    /\ pc = "idle" /\ path = Null /\ previousLength = 0 /\ passes = 0
    /\ outcome = "none"
    /\ before = [outcome |-> "none", values |-> Published]
    /\ lastPass = NoPass
    /\ args = None /\ result = None

\* the effect: generateAll starts when there is a raw boundary
StartRun(bounds) ==
    IF bounds = Null
    THEN UNCHANGED <<pc, outcome, before>>
    ELSE /\ pc' = "generate"
         /\ outcome' = "running"
         /\ before' = [outcome |-> outcome, values |-> Published]

\* the menu bar loads a boundary file
UploadBoundary ==
    /\ pc = "idle"
    /\ \E bounds \in Yards :
          /\ Supported(bounds, rawObstacles)
          /\ rawBoundary' = bounds
          /\ StartRun(bounds)
    /\ UNCHANGED <<rawObstacles, boundary, obstacles, convexHull, minBoundingBox,
                   coverageGrid, voronoiPaths, mowPath, pathMarkers, path,
                   previousLength, passes, lastPass, args, result>>

\* the menu bar loads an obstacles file
UploadObstacles ==
    /\ pc = "idle"
    /\ \E obs \in ObstacleFiles :
          /\ Supported(rawBoundary, obs)
          /\ rawObstacles' = obs
          /\ StartRun(rawBoundary)
    /\ UNCHANGED <<rawBoundary, boundary, obstacles, convexHull, minBoundingBox,
                   coverageGrid, voronoiPaths, mowPath, pathMarkers, path,
                   previousLength, passes, lastPass, args, result>>

\* generateAll up to the planning loop
Generate ==
    /\ pc = "generate"
    /\ LET newBoundary == differenceObstaclesFromBoundary(rawBoundary, rawObstacles)
           newObstacles == removeOrphanedObstacles(newBoundary, rawObstacles)
           newHull == getConvexHull(newBoundary)
           box == getMinBoundingBox(newHull)
       IN  /\ boundary' = newBoundary
           /\ IF newBoundary = Null
              THEN /\ pc' = "idle" /\ outcome' = "noBoundary"
                   /\ UNCHANGED <<obstacles, convexHull, minBoundingBox,
                                  coverageGrid, voronoiPaths>>
              ELSE /\ obstacles' = newObstacles
                   /\ convexHull' = newHull
                   /\ IF box.threw
                      THEN /\ pc' = "idle" /\ outcome' = "noBox"
                           /\ UNCHANGED <<minBoundingBox, coverageGrid, voronoiPaths>>
                      ELSE /\ minBoundingBox' = box.mbb
                           /\ coverageGrid' = getCoverageGrid(newBoundary, newObstacles,
                                                              box.mbb, LaneWidth)
                           /\ voronoiPaths' = calculateVoronoiRoadmap(newBoundary,
                                                                      newObstacles)
                           /\ pc' = "loop" /\ outcome' = "running"
    /\ path' = Null /\ previousLength' = 0 /\ passes' = 0 /\ lastPass' = NoPass
    /\ UNCHANGED <<rawBoundary, rawObstacles, mowPath, pathMarkers, before,
                   args, result>>

\* the rest of an iteration, once calculateMowPath has returned r
AfterPass(r) ==
    /\ coverageGrid' = r.grid
    /\ path' = r.path
    /\ lastPass' = [resume |-> r.resume, pathIn |-> path, pathOut |-> r.path,
                    gridIn |-> coverageGrid, gridOut |-> r.grid]
    /\ IF r.threw
       THEN /\ pc' = "idle" /\ outcome' = "routeThrew"
            /\ UNCHANGED previousLength
       ELSE IF Len(r.path) = previousLength
       THEN pc' = "finish" /\ UNCHANGED <<outcome, previousLength>>
       ELSE /\ previousLength' = Len(r.path)
            /\ UNCHANGED <<pc, outcome>>

\* one iteration of the planning loop
MowPass ==
    /\ pc = "loop"
    /\ CoverageBelowTarget(coverageGrid)
    /\ AfterPass(calculateMowPath(path, boundary, obstacles, voronoiPaths,
                                  coverageGrid))
    /\ passes' = passes + 1
    /\ UNCHANGED <<rawBoundary, rawObstacles, boundary, obstacles, convexHull,
                   minBoundingBox, voronoiPaths, mowPath, pathMarkers, before,
                   args, result>>

\* the rest of generateAll, once pruneExcessPoints has returned or thrown
Publish(pruned) ==
    IF pruned.threw
    THEN outcome' = "pruneThrew" /\ UNCHANGED <<mowPath, pathMarkers>>
    ELSE /\ outcome' = "ok"
         /\ mowPath' = pruned.line
         /\ IF pruned.line # Null
            THEN pathMarkers' = createPathMarkers(pruned.line, LaneWidth)
            ELSE UNCHANGED pathMarkers

\* after the loop: prune and publish
Finish ==
    /\ pc = "finish" \/ (pc = "loop" /\ ~CoverageBelowTarget(coverageGrid))
    /\ Publish(pruneExcessPoints(path, LaneWidth \div 2))
    /\ pc' = "idle"
    /\ UNCHANGED <<rawBoundary, rawObstacles, boundary, obstacles, convexHull,
                   minBoundingBox, coverageGrid, voronoiPaths, path,
                   previousLength, passes, before, lastPass, args, result>>

Next == UploadBoundary \/ UploadObstacles \/ Generate \/ MowPass \/ Finish

Spec == Init /\ [][Next]_vars

-----------------------------------------------------------------------------
(* What the properties speak of.                                           *)

Sign(x) == IF x > 0 THEN 1 ELSE IF x < 0 THEN -1 ELSE 0

\* a point lies in the boundary polygon or on its ring
InsideBoundary(p, bnd) == PolygonContainsPoint(bnd, p) \/ OnRing(p, bnd)

\* the segment p-q has a point in the interior of a convex four-sided
\* obstacle: an end lies in it, or the segment meets the inside of one of
\* its two diagonals
CrossesObstacle(p, q, ring) ==
    \/ PolygonContainsPoint(ring, p)
    \/ PolygonContainsPoint(ring, q)
    \/ \E d \in {<<ring[1], ring[3]>>, <<ring[2], ring[4]>>} :
          /\ Sign(CrossP(p, q, d[1])) * Sign(CrossP(p, q, d[2])) < 0
          /\ Sign(CrossP(d[1], d[2], p)) * Sign(CrossP(d[1], d[2], q)) <= 0

\* the segment p-q crosses the forbidden region: it leaves the boundary or
\* enters an obstacle
CrossesForbidden(p, q, bnd, obs) ==
    \/ ~InsideBoundary(p, bnd)
    \/ ~InsideBoundary(q, bnd)
    \/ obs # Null /\ \E k \in DOMAIN obs : CrossesObstacle(p, q, obs[k])

\* no segment of a polyline crosses the forbidden region
StaysClear(line, bnd, obs) ==
    \A i \in 1 .. (Len(line) - 1) :
        ~CrossesForbidden(line[i], line[i + 1], bnd, obs)

\* equality of two values either of which may be Null
SameValue(a, b) ==
    IF a = Null THEN b = Null ELSE IF b = Null THEN FALSE ELSE a = b

\* a run of generateAll has ended by publishing a mow path
Planned == pc = "idle" /\ outcome = "ok" /\ mowPath # Null

\* the planning loop of a run is under way or has ended
InPlanning == pc \in {"loop", "finish"} \/ (pc = "idle" /\ outcome \in {"ok", "pruneThrew"})

-----------------------------------------------------------------------------
(* Properties of the planner, checked under Spec.                          *)

\* C1: no segment between consecutive vertices of the published mow path
\* crosses the forbidden region, that is, leaves the working boundary or
\* enters a working obstacle.
C1_Containment ==
    Planned => StaysClear(mowPath, boundary, obstacles)

\* C3: during and after planning every visited cell has its centroid inside
\* the boundary eroded by 1 cm and in the interior of no obstacle.
C3_VisitedCellsAreFree ==
    InPlanning =>
        \A k \in DOMAIN coverageGrid :
            coverageGrid[k].visited = visited =>
                /\ PolygonContainsPoint(turfBuffer(boundary, BufferDistance),
                                        coverageGrid[k].centroid)
                /\ obstacles # Null =>
                      \A o \in DOMAIN obstacles :
                          ~PolygonContainsPoint(obstacles[o],
                                                coverageGrid[k].centroid)

\* planning has visited cells of a grid that also has cells inside an obstacle
C3_Witness ==
    /\ InPlanning /\ obstacles # Null
    /\ \E k \in DOMAIN coverageGrid : coverageGrid[k].visited = visited
    /\ \E k \in DOMAIN coverageGrid : \E o \in DOMAIN obstacles :
          PolygonContainsPoint(obstacles[o], coverageGrid[k].centroid)

\* C4: during planning the only change of a cell's state is unvisited to
\* visited, it happens only in a pass of calculateMowPath, and the grid that
\* getCoverageGrid produces has no visited cell.
C4_OnlyVisits ==
    [][/\ (pc \in {"loop", "finish"} /\ coverageGrid' # coverageGrid) =>
             /\ passes' = passes + 1
             /\ lastPass'.gridIn = coverageGrid /\ lastPass'.gridOut = coverageGrid'
             /\ DOMAIN coverageGrid' = DOMAIN coverageGrid
             /\ \A k \in DOMAIN coverageGrid :
                   coverageGrid'[k].visited # coverageGrid[k].visited =>
                       /\ coverageGrid[k].visited = unvisited
                       /\ coverageGrid'[k].visited = visited
       /\ (pc = "generate" /\ pc' = "loop") =>
             \A k \in DOMAIN coverageGrid' : coverageGrid'[k].visited # visited
      ]_vars

\* a second pass has visited further cells of a grid that already had
\* visited, unvisited and unvisitable cells
C4_Witness ==
    /\ pc \in {"loop", "finish"} /\ passes >= 2
    /\ lastPass.gridOut # lastPass.gridIn
    /\ \E k \in DOMAIN lastPass.gridIn : lastPass.gridIn[k].visited = visited
    /\ \E k \in DOMAIN lastPass.gridIn : lastPass.gridIn[k].visited = unvisitable

C6_NoObstaclesPlans ==
    (/\ pc = "idle" /\ outcome \in {"ok", "pruneThrew", "routeThrew"}
     /\ IF obstacles = Null THEN TRUE ELSE Len(obstacles) = 0
     /\ \E k \in DOMAIN coverageGrid : coverageGrid[k].visited # unvisitable)
    => (outcome = "ok" /\ mowPath # Null /\ Len(mowPath) >= 2)

\* C9: every vertex of every roadmap polyline lies inside the working
\* boundary and no roadmap polyline enters an obstacle.
C9_RoadmapSafe ==
    InPlanning =>
        \A r \in DOMAIN voronoiPaths :
            /\ \A i \in DOMAIN voronoiPaths[r] :
                  InsideBoundary(voronoiPaths[r][i], boundary)
            /\ \A i \in 1 .. (Len(voronoiPaths[r]) - 1) :
                  obstacles # Null =>
                     \A k \in DOMAIN obstacles :
                        ~CrossesObstacle(voronoiPaths[r][i], voronoiPaths[r][i + 1],
                                         obstacles[k])

\* C10: after a run that failed for want of a boundary or of a bounding box,
\* every value a successful run had published before is as it was when the
\* failed run started.
C10_FailedRunKeepsValues ==
    (pc = "idle" /\ outcome \in {"noBoundary", "noBox"} /\ before.outcome = "ok")
    => \A f \in DOMAIN Published : SameValue(Published[f], before.values[f])

-----------------------------------------------------------------------------
(* The router on its own: calculateClearPath between two cells.            *)

\* the yards and obstacles the router is asked about
RouterCases == { <<LongYard, <<Bar>>>>, <<SquareYard, <<Block>>>>,
                 <<WideYard, <<WideBlock>>>>, <<OddYard, <<OddBlock>>>>,
                 <<SquareYard, <<>>>> }

\* the centroids of the cells of a yard that can be visited
FreeCentroids(bnd, obs) ==
    {c.centroid : c \in {g \in Range(getCoverageGrid(bnd, obs, bnd, LaneWidth)) :
                            g.visited = unvisited}}

InitRouter ==
    /\ rawBoundary = Null /\ rawObstacles = Null
    /\ \E case \in RouterCases :
          /\ boundary = case[1] /\ obstacles = case[2]
          /\ voronoiPaths \in {calculateVoronoiRoadmap(case[1], case[2]), <<>>}
          /\ \E s \in FreeCentroids(case[1], case[2]) :
                \E e \in FreeCentroids(case[1], case[2]) \ {s} :
                    args = [start |-> s, end |-> e]
    /\ convexHull = Null /\ minBoundingBox = Null /\ coverageGrid = Null
    /\ mowPath = Null /\ pathMarkers = Null
    /\ pc = "idle" /\ path = Null /\ previousLength = 0 /\ passes = 0
    /\ outcome = "none"
    /\ before = [outcome |-> "none", values |-> Published]
    /\ lastPass = NoPass
    /\ result = None

Route ==
    /\ result = None
    /\ result' = <<calculateClearPath(voronoiPaths, args.start, args.end,
                                      boundary, obstacles)>>
    /\ UNCHANGED <<rawBoundary, rawObstacles, boundary, obstacles, convexHull,
                   minBoundingBox, coverageGrid, voronoiPaths, mowPath,
                   pathMarkers, pc, path, previousLength, passes, outcome,
                   before, lastPass, args>>

SpecRouter == InitRouter /\ [][Route]_vars

\* C2: a polyline that calculateClearPath returns starts at the start, ends
\* at the end, and has no segment that crosses the forbidden region.
C2_RouterSound ==
    (result # None /\ ~result[1].threw /\ result[1].line # Null) =>
        /\ result[1].line[1] = args.start
        /\ Last(result[1].line) = args.end
        /\ StaysClear(result[1].line, boundary, obstacles)

-----------------------------------------------------------------------------
(* Pruning on its own: pruneExcessPoints applied once and again.           *)

MaxPathLen == 4

PrunePoints == {<<0, 0>>, <<40, 0>>, <<50, 0>>, <<100, 0>>, <<-20, 0>>}

PruneDistances == {0, LaneWidth \div 2}

RECURSIVE SeqsUpTo(_, _)
SeqsUpTo(S, n) ==
    IF n = 0 THEN {<<>>}
    ELSE SeqsUpTo(S, n - 1) \cup
         {Append(q, x) : q \in SeqsUpTo(S, n - 1), x \in S}

\* every program variable as it is before any upload
Quiet ==
    /\ rawBoundary = Null /\ rawObstacles = Null
    /\ boundary = Null /\ obstacles = Null /\ convexHull = Null
    /\ minBoundingBox = Null /\ coverageGrid = Null /\ voronoiPaths = Null
    /\ mowPath = Null /\ pathMarkers = Null
    /\ pc = "idle" /\ path = Null /\ previousLength = 0 /\ passes = 0
    /\ outcome = "none"
    /\ before = [outcome |-> "none", values |-> Published]
    /\ lastPass = NoPass

InitPrune ==
    /\ Quiet
    /\ \E d \in PruneDistances :
          \/ args = [path |-> Null, pruneDistance |-> d]
          \/ \E p \in SeqsUpTo(PrunePoints, MaxPathLen) :
                args = [path |-> p, pruneDistance |-> d]
    /\ result = None

PruneOnce ==
    /\ result = None
    /\ result' = <<pruneExcessPoints(args.path, args.pruneDistance)>>
    /\ UNCHANGED <<rawBoundary, rawObstacles, boundary, obstacles, convexHull,
                   minBoundingBox, coverageGrid, voronoiPaths, mowPath,
                   pathMarkers, pc, path, previousLength, passes, outcome,
                   before, lastPass, args>>

PruneAgain ==
    /\ Len(result) = 1 /\ ~result[1].threw
    /\ result' = Append(result,
                        pruneExcessPoints(result[1].line, args.pruneDistance))
    /\ UNCHANGED <<rawBoundary, rawObstacles, boundary, obstacles, convexHull,
                   minBoundingBox, coverageGrid, voronoiPaths, mowPath,
                   pathMarkers, pc, path, previousLength, passes, outcome,
                   before, lastPass, args>>

SpecPrune == InitPrune /\ [][PruneOnce \/ PruneAgain]_vars

\* C7: pruneExcessPoints applied to its own output with the same
\* pruneDistance returns the vertex sequence of the first application.
C7_PruneIdempotent ==
    Len(result) = 2 =>
        /\ ~result[2].threw
        /\ SameValue(result[2].line, result[1].line)

\* pruning removed vertices of a path and was applied again to what it kept
C7_Witness ==
    /\ Len(result) = 2 /\ args.path # Null /\ result[1].line # Null
    /\ Len(result[1].line) >= 2
    /\ Len(result[1].line) < Len(args.path)

-----------------------------------------------------------------------------
(* The labelling loop on its own, over any sequence of centroids.          *)

MaxCells == 4

LabelPoints == {<<0, 0>>, <<0, LaneWidth>>, <<LaneWidth, 0>>, <<LaneWidth, LaneWidth>>}

InitLabel ==
    /\ Quiet
    /\ args \in SeqsUpTo(LabelPoints, MaxCells)
    /\ result = None

Label ==
    /\ result = None
    /\ result' = <<LabelCells(args, 1, 0, 0)>>
    /\ UNCHANGED <<rawBoundary, rawObstacles, boundary, obstacles, convexHull,
                   minBoundingBox, coverageGrid, voronoiPaths, mowPath,
                   pathMarkers, pc, path, previousLength, passes, outcome,
                   before, lastPass, args>>

SpecLabel == InitLabel /\ [][Label]_vars

\* the gridCol values of one gridRow of a labelled grid
ColsOf(grid, r) == {grid[k].gridCol : k \in {j \in DOMAIN grid : grid[j].gridRow = r}}

\* C8: the labelling loop gives gridRow values that form a range 0..R, in
\* each gridRow gridCol values that form a range starting at 0, no two cells
\* the same pair, and every gridRow below the row count the sweep uses.
C8_LabelsContiguous ==
    result # None =>
        /\ Len(result[1]) = Len(args)
        /\ \A k \in DOMAIN result[1] :
              /\ result[1][k].gridRow \in 0 .. (getRowCount(result[1]) - 1)
              /\ \A r \in 0 .. result[1][k].gridRow :
                    \E j \in DOMAIN result[1] : result[1][j].gridRow = r
              /\ \A c \in 0 .. result[1][k].gridCol :
                    c \in ColsOf(result[1], result[1][k].gridRow)
              /\ result[1][k].gridCol >= 0
              /\ \A j \in DOMAIN result[1] :
                    (/\ result[1][j].gridRow = result[1][k].gridRow
                     /\ result[1][j].gridCol = result[1][k].gridCol) => j = k

\* cells were labelled in two rows, one of them with two cells
C8_Witness ==
    /\ result # None
    /\ \E k \in DOMAIN result[1] : result[1][k].gridRow = 1
    /\ \E k \in DOMAIN result[1] : result[1][k].gridCol = 1

-----------------------------------------------------------------------------
(* Properties of the sweep and of the planning loop, checked under Spec.   *)

\* the centroid of the cell of a grid with the given gridRow and gridCol
CentroidAt(grid, r, c) ==
    grid[CHOOSE k \in DOMAIN grid : grid[k].gridRow = r /\ grid[k].gridCol = c].centroid

\* the largest gridCol of a gridRow
LastCol(grid, r) ==
    CHOOSE c \in ColsOf(grid, r) : \A d \in ColsOf(grid, r) : d <= c

\* the working obstacles are none
NoObstacles == IF obstacles = Null THEN TRUE ELSE Len(obstacles) = 0

\* C11: with a convex boundary and no obstacles the one pass emits an entry
\* and an exit waypoint for every row, in alternating direction, leaves no
\* cell unvisited, and no second pass and no router call follows.
C11_PlainSweep ==
    (pc \in {"loop", "finish"} /\ NoObstacles /\ passes >= 1) =>
        /\ passes = 1 /\ lastPass.resume = "first"
        /\ \A k \in DOMAIN coverageGrid : coverageGrid[k].visited # unvisited
        /\ Len(path) = 2 * getRowCount(coverageGrid)
        /\ \A r \in 0 .. (getRowCount(coverageGrid) - 1) :
              /\ path[2 * r + 1] =
                    CentroidAt(coverageGrid, r,
                               IF r % 2 = 0 THEN 0 ELSE LastCol(coverageGrid, r))
              /\ path[2 * r + 2] =
                    CentroidAt(coverageGrid, r,
                               IF r % 2 = 0 THEN LastCol(coverageGrid, r) ELSE 0)

\* the number of cells of a grid in a state
CountOf(grid, state) == Cardinality({k \in DOMAIN grid : grid[k].visited = state})

\* visited / (visited + unvisited) is a number below 0.99
RatioBelowTarget(grid) ==
    /\ CountOf(grid, visited) + CountOf(grid, unvisited) > 0
    /\ 100 * CountOf(grid, visited) <
          99 * (CountOf(grid, visited) + CountOf(grid, unvisited))

\* the last pass made the path longer
LastPassGrew ==
    Len(lastPass.pathOut) > (IF lastPass.pathIn = Null THEN 0 ELSE Len(lastPass.pathIn))

\* C12: the planning loop runs another pass exactly when the ratio of
\* visited to visited plus unvisited cells is below 0.99 and the pass before,
\* if there was one, made the path longer; otherwise no further pass runs.
C12_LoopRule ==
    [][(pc = "loop" \/ pc = "finish") =>
          ((passes' = passes + 1) <=>
              (RatioBelowTarget(coverageGrid) /\ (passes = 0 \/ LastPassGrew)))
      ]_vars

\* the loop has stopped after a second pass that added no vertex, in a grid
\* that has unvisitable cells and is not covered
C12_Witness ==
    /\ pc = "finish" /\ passes >= 2 /\ ~LastPassGrew
    /\ RatioBelowTarget(coverageGrid)
    /\ CountOf(coverageGrid, unvisitable) > 0

-----------------------------------------------------------------------------
(* The boundary conditioner on its own: the first lines of generateAll.    *)

MaxObstacles == 2

\* a slab that reaches over the right edge of a yard from top to bottom, and
\* an obstacle inside the yard that lies across the slab's left side
Slab == RingOf(Rect(300, -100, 600, 600))
Straddle == RingOf(Rect(280, 80, 320, 120))

ConditionYards == {LongYard, SquareYard, WideYard, OddYard}

ConditionObstacles == {Bar, Far, Cover, Slab, Straddle}

InitCondition ==
    /\ rawBoundary \in ConditionYards
    /\ rawObstacles \in SeqsUpTo(ConditionObstacles, MaxObstacles)
    /\ boundary = Null /\ obstacles = Null /\ convexHull = Null
    /\ minBoundingBox = Null /\ coverageGrid = Null /\ voronoiPaths = Null
    /\ mowPath = Null /\ pathMarkers = Null
    /\ pc = "generate" /\ path = Null /\ previousLength = 0 /\ passes = 0
    /\ outcome = "running"
    /\ before = [outcome |-> "none", values |-> Published]
    /\ lastPass = NoPass
    /\ args = None /\ result = None

\* generateAll up to the working obstacles
Condition ==
    /\ pc = "generate"
    /\ boundary' = differenceObstaclesFromBoundary(rawBoundary, rawObstacles)
    /\ IF differenceObstaclesFromBoundary(rawBoundary, rawObstacles) = Null
       THEN pc' = "idle" /\ outcome' = "noBoundary" /\ UNCHANGED obstacles
       ELSE /\ pc' = "conditioned" /\ UNCHANGED outcome
            /\ obstacles' = removeOrphanedObstacles(
                               differenceObstaclesFromBoundary(rawBoundary, rawObstacles),
                               rawObstacles)
    /\ UNCHANGED <<rawBoundary, rawObstacles, convexHull, minBoundingBox,
                   coverageGrid, voronoiPaths, mowPath, pathMarkers, path,
                   previousLength, passes, before, lastPass, args, result>>

SpecCondition == InitCondition /\ [][Condition]_vars

\* the interiors of two rectangles have no point in common
InteriorsApart(o, b) ==
    o.x2 <= b.x1 \/ b.x2 <= o.x1 \/ o.y2 <= b.y1 \/ b.y2 <= o.y1

\* C13: once the conditioner has produced a working boundary, every raw
\* obstacle that is not entirely within the raw boundary has been taken out
\* of the working boundary, and every raw obstacle that is entirely within
\* the raw boundary is one of the working obstacles.
C13_ObstaclesPartitioned ==
    pc = "conditioned" =>
        \A i \in DOMAIN rawObstacles :
            IF RectWithin(BBoxOf(rawObstacles[i]), BBoxOf(rawBoundary))
            THEN \E k \in DOMAIN obstacles : obstacles[k] = rawObstacles[i]
            ELSE InteriorsApart(BBoxOf(rawObstacles[i]), BBoxOf(boundary))

-----------------------------------------------------------------------------
(* When the router answers, checked under SpecRouter.                      *)

\* the forbidden region of the state
Forbidden == boundaryAndObstaclesOf(boundary, obstacles)

\* the straight segment from start to end is clear
DirectClear == isPathClear(<<args.start, args.end>>, Forbidden)

\* some roadmap polyline has a clear segment between p and its nearest point
HasClearStitch(p) ==
    \E i \in DOMAIN voronoiPaths :
        isPathClear(<<p, nearestPointOnLine(voronoiPaths[i], p).coordinates>>,
                    Forbidden)

\* the nodes of a graph that can be reached from the nodes in seen
RECURSIVE Reach(_, _)
Reach(graph, seen) ==
    IF \A n \in seen : \A k \in DOMAIN graph[n] : graph[n][k].node \in seen
    THEN seen
    ELSE Reach(graph, seen \cup UNION {{graph[n][k].node : k \in DOMAIN graph[n]} :
                                          n \in seen})

\* the graph of the temporary roadmap joins the start to the end
TempGraphConnects ==
    KeyOf(args.end) \in
        Reach(calculateAdjacencyGraph(
                 tempVoronoiRoadmap(voronoiPaths, args.start, args.end,
                    ShortestStitch(voronoiPaths, 1, args.start, TRUE, Forbidden, None)[1],
                    ShortestStitch(voronoiPaths, 1, args.end, FALSE, Forbidden, None)[1])),
              {KeyOf(args.start)})

\* C14: calculateClearPath raises no error and returns a path exactly when
\* the direct segment is clear, or both ends have a clear stitch onto a
\* roadmap polyline and the temporary roadmap's graph joins them; otherwise
\* it returns null, and with an empty roadmap and a clear direct segment it
\* returns the direct line.
C14_RouterAnswers ==
    result # None =>
        /\ ~result[1].threw
        /\ (result[1].line # Null) <=>
              (\/ DirectClear
               \/ /\ HasClearStitch(args.start) /\ HasClearStitch(args.end)
                  /\ TempGraphConnects)
        /\ (voronoiPaths = <<>> /\ DirectClear) =>
              result[1].line = <<args.start, args.end>>

\* a route over the roadmap was returned where the direct segment is blocked
C14_Witness ==
    /\ result # None /\ ~DirectClear
    /\ result[1].line # Null /\ Len(result[1].line) > 2

-----------------------------------------------------------------------------
(* The planning loop with the pass taken one row at a time.                *)

\* a yard of 6 x 6 cells and a block over its middle that leaves two cell
\* lines on every side
BigYard == RingOf(Rect(0, 0, 600, 600))
BigBlock == RingOf(Rect(180, 180, 420, 420))

\* a yard of 7 x 7 cells and a block over its middle cell
DeepYard == RingOf(Rect(0, 0, 700, 700))
DeepBlock == RingOf(Rect(280, 280, 420, 420))

\* a yard of 4 x 6 cells, and obstacles that each cover one of its cells
PatchYard == RingOf(Rect(0, 0, 400, 600))
Patch(cx, cy) == RingOf(Rect(cx - 30, cy - 30, cx + 30, cy + 30))

\* the uploads the loop is run on
SweepCases == { <<SmallYard, <<>>>>, <<LongYard, <<>>>>, <<SquareYard, <<>>>>,
                <<WideYard, <<>>>>, <<PatchYard, <<>>>>, <<LongYard, <<Bar>>>>,
                <<SquareYard, <<Block>>>>, <<WideYard, <<WideBlock>>>>,
                <<OddYard, <<OddBlock>>>>, <<BigYard, <<BigBlock>>>>,
                <<DeepYard, <<DeepBlock>>>>,
                <<PatchYard, <<Patch(150, 50), Patch(150, 550)>>>>,
                <<PatchYard, <<Patch(150, 250), Patch(150, 550),
                               Patch(250, 150)>>>> }

\* the uploads whose Voronoi diagram the model knows
KnownRoadmap(bounds, obs) ==
    \/ obs = <<>>
    \/ <<bounds, obs>> \in RouterCases
    \/ (bounds = BigYard /\ obs = <<BigBlock>>)
    \/ (bounds = DeepYard /\ obs = <<DeepBlock>>)

\* generateAll up to the loop.  Where the model does not know the Voronoi
\* diagram of the uploads the roadmap stands at Null and the loop is followed
\* to the end of its first pass, which does not read the roadmap
InitSweep ==
    /\ \E case \in SweepCases :
          /\ rawBoundary = case[1] /\ rawObstacles = case[2]
          /\ boundary = differenceObstaclesFromBoundary(case[1], case[2])
    /\ obstacles = removeOrphanedObstacles(boundary, rawObstacles)
    /\ convexHull = getConvexHull(boundary)
    /\ minBoundingBox = getMinBoundingBox(convexHull).mbb
    /\ coverageGrid = getCoverageGrid(boundary, obstacles, minBoundingBox, LaneWidth)
    /\ voronoiPaths = IF KnownRoadmap(rawBoundary, rawObstacles)
                      THEN calculateVoronoiRoadmap(boundary, obstacles)
                      ELSE Null
    /\ mowPath = Null /\ pathMarkers = Null
    /\ pc = "loop" /\ path = Null /\ previousLength = 0 /\ passes = 0
    /\ outcome = "running"
    /\ before = [outcome |-> "none", values |-> Published]
    /\ lastPass = NoPass
    /\ args = None /\ result = None

\* the pass goes on to its rows, from the coordinates it starts with
StartRows(coordinates, resume) ==
    /\ args' = <<[coordinates |-> coordinates, rowIndex |-> 0,
                  rowCount |-> getRowCount(coverageGrid), waypoints |-> <<>>,
                  returned |-> FALSE, swept |-> TRUE, gridIn |-> coverageGrid,
                  resume |-> resume]>>
    /\ pc' = "rows"
    /\ UNCHANGED outcome

\* the pass returns the path it was given
NoRows(resume) ==
    /\ args' = <<[coordinates |-> path, rowIndex |-> 0, rowCount |-> 0,
                  waypoints |-> <<>>, returned |-> TRUE, swept |-> FALSE,
                  gridIn |-> coverageGrid, resume |-> resume]>>
    /\ pc' = "rows"
    /\ UNCHANGED outcome

\* the pass once the resume route was asked for
ResumeRows(pathToStart) ==
    IF pathToStart.threw
    THEN pc' = "done" /\ outcome' = "routeThrew" /\ UNCHANGED args
    ELSE IF pathToStart.line = Null THEN NoRows("failed")
    ELSE StartRows(path \o pathToStart.line, "routed")

\* the loop test and the resume step of calculateMowPath
BeginPass ==
    /\ pc = "loop"
    /\ CoverageBelowTarget(coverageGrid)
    /\ ~(path # Null /\ voronoiPaths = Null)
    /\ IF path = Null THEN StartRows(<<>>, "first")
       ELSE IF UnvisitedCells(coverageGrid) = <<>> THEN NoRows("none")
       ELSE ResumeRows(calculateClearPath(voronoiPaths, Last(path),
                          coverageGrid[UnvisitedCells(coverageGrid)[1]].centroid,
                          boundary, obstacles))
    /\ result' = None
    /\ UNCHANGED <<rawBoundary, rawObstacles, boundary, obstacles, convexHull,
                   minBoundingBox, coverageGrid, voronoiPaths, mowPath,
                   pathMarkers, path, previousLength, passes, before, lastPass>>

\* one iteration of the row loop, with what it did added to the record of
\* the pass
RowStepTo(row, startIndex, done) ==
    /\ coverageGrid' = done.grid
    /\ args' = <<[args[1] EXCEPT !.waypoints = done.waypoints,
                                 !.returned = done.returned,
                                 !.rowIndex = @ + 1]>>
    /\ result' = Append(result,
                    [rowIndex |-> args[1].rowIndex, row |-> row,
                     startIndex |-> startIndex, gridIn |-> coverageGrid,
                     waypointsIn |-> args[1].waypoints,
                     waypointsOut |-> done.waypoints,
                     returned |-> done.returned])

RowStepAt(row, startIndex) ==
    RowStepTo(row, startIndex,
              RowBody(coverageGrid, row, startIndex, args[1].rowIndex,
                      args[1].waypoints))

RowStep ==
    /\ pc = "rows"
    /\ ~args[1].returned
    /\ args[1].rowIndex < args[1].rowCount
    /\ RowStepAt(RowOf(coverageGrid, args[1].rowIndex),
                 StartIndex(coverageGrid, RowOf(coverageGrid, args[1].rowIndex),
                            args[1].waypoints,
                            boundaryAndObstaclesOf(boundary, obstacles)))
    /\ UNCHANGED <<rawBoundary, rawObstacles, boundary, obstacles, convexHull,
                   minBoundingBox, voronoiPaths, mowPath, pathMarkers, pc, path,
                   previousLength, passes, outcome, before, lastPass>>

\* the pass returns and the loop compares the length of the path
EndPass ==
    /\ pc = "rows"
    /\ args[1].returned \/ args[1].rowIndex >= args[1].rowCount
    /\ path' = args[1].coordinates \o args[1].waypoints
    /\ passes' = passes + 1
    /\ lastPass' = [resume |-> args[1].resume, pathIn |-> path,
                    pathOut |-> path', gridIn |-> args[1].gridIn,
                    gridOut |-> coverageGrid]
    /\ IF Len(path') = previousLength
       THEN pc' = "done" /\ UNCHANGED previousLength
       ELSE pc' = "loop" /\ previousLength' = Len(path')
    /\ UNCHANGED <<rawBoundary, rawObstacles, boundary, obstacles, convexHull,
                   minBoundingBox, coverageGrid, voronoiPaths, mowPath,
                   pathMarkers, outcome, before, args, result>>

\* the loop ends on the coverage
EndLoop ==
    /\ pc = "loop"
    /\ ~CoverageBelowTarget(coverageGrid)
    /\ pc' = "done"
    /\ UNCHANGED <<rawBoundary, rawObstacles, boundary, obstacles, convexHull,
                   minBoundingBox, coverageGrid, voronoiPaths, mowPath,
                   pathMarkers, path, previousLength, passes, outcome, before,
                   lastPass, args, result>>

SpecSweep == InitSweep /\ [][BeginPass \/ RowStep \/ EndPass \/ EndLoop]_vars

\* the rows taken one at a time make the pass calculateMowPath computes
RowsMakeThePass ==
    (passes >= 1 /\ (pc = "loop" \/ pc = "done") /\ outcome = "running")
       => /\ path = calculateMowPath(lastPass.pathIn, boundary, obstacles,
                                     voronoiPaths, lastPass.gridIn).path
          /\ coverageGrid = calculateMowPath(lastPass.pathIn, boundary, obstacles,
                                     voronoiPaths, lastPass.gridIn).grid
          /\ lastPass.resume = calculateMowPath(lastPass.pathIn, boundary, obstacles,
                                     voronoiPaths, lastPass.gridIn).resume

-----------------------------------------------------------------------------
(* Properties of the rows of a pass, checked under SpecSweep.  result      *)
(* holds, for every row the pass has gone through, what the row loop was   *)
(* given and what it left.                                                 *)

\* the waypoints a row added to the pass
EmittedBy(e) ==
    SubSeq(e.waypointsOut, Len(e.waypointsIn) + 1, Len(e.waypointsOut))

\* the centroid of the cell at position j of a row
CentroidOf(e, j) == e.gridIn[e.row[j]].centroid

\* the straight segment from the waypoint before the row to the cell at
\* position j of the row does not cross the forbidden region
ClearFrom(e, j) ==
    ~CrossesForbidden(Last(e.waypointsIn), CentroidOf(e, j), boundary, obstacles)

\* no cell of the row has another state than before the row
RowUntouched(e) ==
    \A k \in DOMAIN coverageGrid :
        coverageGrid[k].gridRow = e.rowIndex
           => coverageGrid[k].visited = e.gridIn[k].visited

\* the row was entered at position j: the cell is visited and its centroid
\* is the first waypoint of the row
EnteredAt(e, j) ==
    /\ coverageGrid[e.row[j]].visited = visited
    /\ EmittedBy(e) # <<>>
    /\ EmittedBy(e)[1] = CentroidOf(e, j)

\* C15: in a pass that already has a waypoint, a row is entered at its first
\* cell, in the order of the row, whose centroid is joined to the previous
\* waypoint by a straight segment that does not cross the forbidden region:
\* the cell is visited and its centroid emitted.  When no cell qualifies the
\* row emits nothing and none of its cells changes state in the pass.
C15_RowEntry ==
    \A i \in DOMAIN result :
        (Len(result[i].waypointsIn) > 0 /\ result[i].row # <<>>)
           => IF \E j \in DOMAIN result[i].row : ClearFrom(result[i], j)
              THEN \E j \in DOMAIN result[i].row :
                      /\ ClearFrom(result[i], j)
                      /\ \A k \in 1 .. (j - 1) : ~ClearFrom(result[i], k)
                      /\ EnteredAt(result[i], j)
              ELSE /\ EmittedBy(result[i]) = <<>>
                   /\ RowUntouched(result[i])

\* the cell at position j of a row lies more than one column from the cell
\* before it
GapAt(e, j) ==
    Abs(e.gridIn[e.row[j]].gridCol - e.gridIn[e.row[j - 1]].gridCol) > 1

\* before the row, the row above holds two or more unvisited cells within
\* one column of the cell at position j
NearAt(e, j) ==
    Cardinality({k \in DOMAIN e.gridIn :
        /\ e.gridIn[k].visited = unvisited
        /\ e.gridIn[k].gridRow = e.rowIndex - 1
        /\ Abs(e.gridIn[k].gridCol - e.gridIn[e.row[j]].gridCol) <= 1}) >= 2

\* the traversal of a row comes to position j: the row was entered before j
\* and no cell between the entry and j is at a gap or near unvisited cells
\* of the row above
Meets(e, j) ==
    /\ e.startIndex > 0 /\ e.startIndex < j /\ j <= Len(e.row)
    /\ \A k \in (e.startIndex + 1) .. (j - 1) : ~GapAt(e, k) /\ ~NearAt(e, k)

\* the path the pass under way, or the last pass, was given
PathBefore == IF pc = "rows" THEN path ELSE lastPass.pathIn

\* the positions the pass has added to that path so far
AddedInPass ==
    SubSeq(args[1].coordinates \o args[1].waypoints,
           (IF PathBefore = Null THEN 0 ELSE Len(PathBefore)) + 1,
           Len(args[1].coordinates) + Len(args[1].waypoints))

\* C16: when the traversal of a row meets a cell more than one column from
\* the previous cell of the row, the row ends with the previous cell's
\* centroid as its last waypoint and the pass goes on; the cell after the
\* gap and every later cell of the row are unvisited for the rest of the
\* pass and the pass adds none of their centroids to the path.
C16_GapEndsRow ==
    \A i \in DOMAIN result : \A j \in 2 .. Len(result[i].row) :
        (Meets(result[i], j) /\ GapAt(result[i], j))
           => /\ ~result[i].returned
              /\ Last(EmittedBy(result[i])) = CentroidOf(result[i], j - 1)
              /\ \A k \in j .. Len(result[i].row) :
                    /\ coverageGrid[result[i].row[k]].visited = unvisited
                    /\ CentroidOf(result[i], k) \notin Range(AddedInPass)

\* a pass has ended in which a row stopped at a gap and a later row was
\* entered
C16_Witness ==
    /\ pc = "loop" \/ pc = "done"
    /\ \E i \in DOMAIN result : \E j \in 2 .. Len(result[i].row) :
          /\ Meets(result[i], j) /\ GapAt(result[i], j)
          /\ \E l \in DOMAIN result : l > i /\ result[l].startIndex > 0

\* no cell of a row after rowIndex has another state than when the pass
\* began, and the pass has gone through no such row
LaterRowsUntouched(rowIndex) ==
    /\ \A k \in DOMAIN coverageGrid :
          coverageGrid[k].gridRow > rowIndex
             => coverageGrid[k].visited = args[1].gridIn[k].visited
    /\ \A l \in DOMAIN result : result[l].rowIndex <= rowIndex

\* the pass returned at position j of a row: the cell is visited and its
\* centroid is the last waypoint of the pass, the later cells of the row
\* and the later rows are as before, and once the pass has ended the path
\* is what the pass started from followed by its waypoints
ReturnedAt(e, j) ==
    /\ e.returned
    /\ coverageGrid[e.row[j]].visited = visited
    /\ args[1].waypoints = e.waypointsOut
    /\ Last(e.waypointsOut) = CentroidOf(e, j)
    /\ \A k \in (j + 1) .. Len(e.row) :
          /\ coverageGrid[e.row[k]].visited = unvisited
          /\ CentroidOf(e, k) \notin Range(AddedInPass)
    /\ LaterRowsUntouched(e.rowIndex)
    /\ pc # "rows" => path = args[1].coordinates \o e.waypointsOut

\* C17 as stated: whenever the traversal of a row comes to a cell past the
\* entry for which the row above holds two or more unvisited cells within
\* one column, the pass emits that cell's centroid, marks it visited,
\* appends its waypoints to the path and returns: no later cell of the row
\* and no cell of a later row is visited or emitted in the pass.
C17_EarlyReturnAsStated ==
    \A i \in DOMAIN result : \A j \in 2 .. Len(result[i].row) :
        (Meets(result[i], j) /\ NearAt(result[i], j))
           => ReturnedAt(result[i], j)

\* C17, amended: the same, for a cell that is not at a gap of the row (the
\* gap is tested first, and a cell at a gap ends the row, not the pass).
C17_EarlyReturn ==
    \A i \in DOMAIN result : \A j \in 2 .. Len(result[i].row) :
        (Meets(result[i], j) /\ ~GapAt(result[i], j) /\ NearAt(result[i], j))
           => ReturnedAt(result[i], j)

\* a pass has ended that returned from within a row with cells and rows
\* left over
C17_Witness ==
    /\ pc = "loop" \/ pc = "done"
    /\ \E i \in DOMAIN result : \E j \in 2 .. Len(result[i].row) :
          /\ Meets(result[i], j) /\ ~GapAt(result[i], j) /\ NearAt(result[i], j)
          /\ result[i].returned
          /\ result[i].rowIndex + 1 < args[1].rowCount
          /\ \E k \in DOMAIN coverageGrid :
                /\ coverageGrid[k].gridRow > result[i].rowIndex
                /\ coverageGrid[k].visited = unvisited

\* the column of the cell of a row that has the centroid p, and -1 when the
\* row has no such cell
ColumnIn(e, p) ==
    IF \E k \in DOMAIN e.gridIn :
          e.gridIn[k].gridRow = e.rowIndex /\ e.gridIn[k].centroid = p
    THEN e.gridIn[CHOOSE k \in DOMAIN e.gridIn :
              e.gridIn[k].gridRow = e.rowIndex /\ e.gridIn[k].centroid = p].gridCol
    ELSE -1

\* the waypoints of a row run with the row's direction: of two of them the
\* later one lies at a higher column on an even row and at a lower column
\* on an odd row, unless they are the same cell's (the entry cell is emitted
\* again as the exit when the row stops right after it)
RunsWithRow(e) ==
    \A m, n \in DOMAIN EmittedBy(e) :
        m < n => \/ EmittedBy(e)[m] = EmittedBy(e)[n]
                 \/ IF e.rowIndex % 2 = 0
                    THEN ColumnIn(e, EmittedBy(e)[m]) < ColumnIn(e, EmittedBy(e)[n])
                    ELSE ColumnIn(e, EmittedBy(e)[m]) > ColumnIn(e, EmittedBy(e)[n])

\* C18: within a pass the waypoints of an even row come in increasing
\* gridCol order and those of an odd row in decreasing gridCol order, each
\* the centroid of a cell of that row, and the rows are gone through in
\* increasing gridRow order.
C18_Boustrophedon ==
    /\ \A i \in DOMAIN result :
          /\ \A m \in DOMAIN EmittedBy(result[i]) :
                ColumnIn(result[i], EmittedBy(result[i])[m]) >= 0
          /\ RunsWithRow(result[i])
    /\ \A i, l \in DOMAIN result : i < l => result[i].rowIndex < result[l].rowIndex
    /\ result # None
          => args[1].waypoints = result[Len(result)].waypointsOut

\* a pass has ended in which an even row and an odd row each emitted the
\* centroids of two cells
C18_Witness ==
    /\ pc = "loop" \/ pc = "done"
    /\ \E i, l \in DOMAIN result :
          /\ result[i].rowIndex % 2 = 0 /\ result[l].rowIndex % 2 = 1
          /\ Cardinality(Range(EmittedBy(result[i]))) >= 2
          /\ Cardinality(Range(EmittedBy(result[l]))) >= 2

-----------------------------------------------------------------------------
(* What pruneExcessPoints keeps, checked under SpecPrune.                  *)

\* two positions are more than d apart
Beyond(p, q, d) == Dist2(p, q) > d * d

\* the last position of the kept ones that comes before position i of the
\* input, when f gives the input positions of the kept ones in order
KeptBefore(f, i) == CHOOSE m \in DOMAIN f : f[m] < i /\ \A n \in DOMAIN f : f[n] < i => n <= m

\* out is what is left of in when positions are dropped, f giving the
\* places of the kept ones: the first is kept, every kept one after it is
\* more than d from the kept one before it, and every dropped one is within
\* d of the kept one that precedes it
KeepsBy(f, in, out, d) ==
    /\ f[1] = 1
    /\ \A m \in DOMAIN out : out[m] = in[f[m]]
    /\ \A m \in 2 .. Len(out) : f[m - 1] < f[m] /\ Beyond(out[m - 1], out[m], d)
    /\ \A i \in DOMAIN in :
          (\A m \in DOMAIN out : f[m] # i)
             => ~Beyond(out[KeptBefore(f, i)], in[i], d)

-----------------------------------------------------------------------------
(* The search on its own: getDijkstraPath over the graph of any roads.     *)

MaxRoads == 3

\* roads between the corners of a square of side 100: four sides, a
\* diagonal, two detours between corners that a side or two sides join more
\* shortly, and a road of no length
DijkstraRoads ==
    { << <<0, 0>>, <<100, 0>> >>,
      << <<100, 0>>, <<100, 100>> >>,
      << <<100, 100>>, <<0, 100>> >>,
      << <<0, 100>>, <<100, 0>> >>,
      << <<0, 0>>, <<0, 300>>, <<100, 100>> >>,
      << <<0, 100>>, <<-200, 50>>, <<0, 0>> >>,
      << <<0, 0>>, <<0, 0>> >> }

DijkstraEnds == { <<0, 0>>, <<100, 100>>, <<0, 100>> }

\* a roadmap of up to MaxRoads roads, and a start and an end that are nodes
\* of its graph
InitDijkstra ==
    /\ Quiet
    /\ \E roads \in SeqsUpTo(DijkstraRoads, MaxRoads) :
          \E end \in DijkstraEnds :
              /\ KeyOf(<<0, 0>>) \in GraphNodes(roads)
              /\ KeyOf(end) \in GraphNodes(roads)
              /\ args = [roads |-> roads, start |-> <<0, 0>>, end |-> end]
    /\ result = None

Dijkstra ==
    /\ result = None
    /\ result' = <<getDijkstraPath(calculateAdjacencyGraph(args.roads),
                                   args.start, args.end)>>
    /\ UNCHANGED <<rawBoundary, rawObstacles, boundary, obstacles, convexHull,
                   minBoundingBox, coverageGrid, voronoiPaths, mowPath,
                   pathMarkers, pc, path, previousLength, passes, outcome,
                   before, lastPass, args>>

SpecDijkstra == InitDijkstra /\ [][Dijkstra]_vars

\* the least element of a set of numbers
LeastOf(S) == CHOOSE x \in S : \A y \in S : x <= y

\* the least total distance over the walks of at most n edges from u to v,
\* as a set of one number, or the empty set when there is no such walk
RECURSIVE LeastDistance(_, _, _, _)
LeastDistance(graph, u, v, n) ==
    LET walks == (IF u = v THEN {0} ELSE {})
                 \cup (IF n = 0 THEN {}
                       ELSE UNION { { x + graph[w][k].distance :
                                        x \in LeastDistance(graph, u, w, n - 1) } :
                                    <<w, k>> \in { <<w, k>> \in
                                        UNION { {w} \X DOMAIN graph[w] : w \in DOMAIN graph } :
                                        graph[w][k].node = v } })
    IN  IF walks = {} THEN {} ELSE {LeastOf(walks)}

\* the least total distance from the start to the end of the call
LeastOfCall ==
    LeastDistance(calculateAdjacencyGraph(args.roads), KeyOf(args.start),
                  KeyOf(args.end),
                  Cardinality(DOMAIN calculateAdjacencyGraph(args.roads)))

\* C20: on the graph of any roads whose nodes include the keys of start and
\* end the search comes to an end.  A route it returns runs from the start
\* to the end and the distances of its edges add up to the least total
\* distance of any route between them; it returns null exactly when the end
\* cannot be reached; and it ends by an exception only when start and end
\* have the same key, where the route has no position.
C20_DijkstraShortest ==
    result # None
       => /\ result[1].threw => KeyOf(args.start) = KeyOf(args.end)
          /\ (~result[1].threw /\ result[1].line = Null) <=> LeastOfCall = {}
          /\ (~result[1].threw /\ result[1].line # Null)
                => /\ KeyOf(result[1].line[1]) = KeyOf(args.start)
                   /\ KeyOf(Last(result[1].line)) = KeyOf(args.end)
                   /\ LeastOfCall = {turfLength(result[1].line)}

\* the search returned a route of two roads that is shorter than a single
\* road from the start to the end
C20_Witness ==
    /\ result # None /\ ~result[1].threw /\ result[1].line # Null
    /\ Len(result[1].line) = 4
    /\ \E i \in DOMAIN args.roads :
          /\ KeyOf(args.roads[i][1]) = KeyOf(args.start)
          /\ KeyOf(Last(args.roads[i])) = KeyOf(args.end)
          /\ turfLength(args.roads[i]) > turfLength(result[1].line)

\* a polyline is the beginning of a line
IsPrefix(p, line) == Len(p) <= Len(line) /\ SubSeq(line, 1, Len(p)) = p

\* the line is made of the polylines of a chain of edges of the graph that
\* leads from the node to the end, each polyline beginning at the key of the
\* node its edge leaves and ending at the key of the node its edge enters
RECURSIVE ChainFrom(_, _, _, _)
ChainFrom(graph, node, endKey, line) ==
    IF line = <<>> THEN node = endKey
    ELSE \E k \in DOMAIN graph[node] :
            /\ IsPrefix(graph[node][k].path, line)
            /\ KeyOf(graph[node][k].path[1]) = node
            /\ KeyOf(Last(graph[node][k].path)) = graph[node][k].node
            /\ ChainFrom(graph, graph[node][k].node, endKey,
                         SubSeq(line, Len(graph[node][k].path) + 1, Len(line)))

\* every road is an edge of the graph in both directions: with its polyline
\* from the key of its first position, with the reversed polyline from the
\* key of its last position, and with its length in both
BothWays(roads, graph) ==
    \A i \in DOMAIN roads :
        /\ \E k \in DOMAIN graph[KeyOf(roads[i][1])] :
              graph[KeyOf(roads[i][1])][k] =
                 [node |-> KeyOf(Last(roads[i])),
                  distance |-> turfLength(roads[i]), path |-> roads[i]]
        /\ \E k \in DOMAIN graph[KeyOf(Last(roads[i]))] :
              graph[KeyOf(Last(roads[i]))][k] =
                 [node |-> KeyOf(roads[i][1]),
                  distance |-> turfLength(roads[i]), path |-> Reverse(roads[i])]

\* C21: the polyline getDijkstraPath returns is the concatenation, in the
\* order of travel, of the polylines stored on the edges of a route from
\* start to end: it begins at the key of start, ends at the key of end, each
\* polyline begins at the key where the one before it ended, and an edge
\* taken against the direction of its road carries the reversed polyline and
\* the same distance.
C21_RouteIsConcatenation ==
    /\ BothWays(args.roads, calculateAdjacencyGraph(args.roads))
    /\ (result # None /\ ~result[1].threw /\ result[1].line # Null)
          => /\ KeyOf(result[1].line[1]) = KeyOf(args.start)
             /\ KeyOf(Last(result[1].line)) = KeyOf(args.end)
             /\ ChainFrom(calculateAdjacencyGraph(args.roads), KeyOf(args.start),
                          KeyOf(args.end), result[1].line)

\* a route of two roads was returned whose first road, a detour of three
\* positions, is travelled against its stored direction
C21_Witness ==
    /\ result # None /\ ~result[1].threw /\ result[1].line # Null
    /\ Len(result[1].line) = 5
    /\ \E i \in DOMAIN args.roads :
          /\ Len(args.roads[i]) = 3
          /\ SubSeq(result[1].line, 1, 3) = Reverse(args.roads[i])
          /\ SubSeq(result[1].line, 1, 3) # args.roads[i]

-----------------------------------------------------------------------------
(* The roadmap on its own: the edge extraction, identifyBranchPoints and   *)
(* joinSegments over the rings of any cells.                               *)

MaxRings == 3

\* the four cells of a 2 x 2 block of squares of side 100, and the lower
\* right one with the ends of the edge it shares with the lower left one
\* moved by less than the fingerprint grid
CellRings ==
    { << <<0, 0>>, <<100, 0>>, <<100, 100>>, <<0, 100>>, <<0, 0>> >>,
      << <<100, 0>>, <<200, 0>>, <<200, 100>>, <<100, 100>>, <<100, 0>> >>,
      << <<101, 0>>, <<200, 0>>, <<200, 100>>, <<99, 100>>, <<101, 0>> >>,
      << <<0, 100>>, <<100, 100>>, <<100, 200>>, <<0, 200>>, <<0, 100>> >>,
      << <<100, 100>>, <<200, 100>>, <<200, 200>>, <<100, 200>>, <<100, 100>> >> }

\* no obstacle, or one across the left edge of the block
CellObstacles == { <<>>, <<RingOf(Rect(-10, 40, 10, 60))>> }

InitRoadmap ==
    /\ Quiet
    /\ \E polygons \in SeqsUpTo(CellRings, MaxRings) : \E obs \in CellObstacles :
          args = [polygons |-> polygons, obstacles |-> obs]
    /\ result = None

\* calculateVoronoiRoadmap from the cells on
RoadmapOf(segments) ==
    [segments |-> segments,
     branchPoints |-> identifyBranchPoints(segments, 1, <<>>),
     roads |-> joinSegments(segments, identifyBranchPoints(segments, 1, <<>>))]

Roadmap ==
    /\ result = None
    /\ result' = <<RoadmapOf(ExtractAll(args.polygons, Null, args.obstacles,
                                 [segments |-> <<>>, segmentSet |-> {}]).segments)>>
    /\ UNCHANGED <<rawBoundary, rawObstacles, boundary, obstacles, convexHull,
                   minBoundingBox, coverageGrid, voronoiPaths, mowPath,
                   pathMarkers, pc, path, previousLength, passes, outcome,
                   before, lastPass, args>>

SpecRoadmap == InitRoadmap /\ [][Roadmap]_vars

\* the unordered pair of the fingerprints of two positions
KeyPair(a, b) == {KeyOf(a), KeyOf(b)}

\* how many segments have an endpoint with the key
DegreeOf(segments, key) == EndpointCount(segments, Len(segments), key)

\* the places <<r, i>> at which a segment lies in the roads: positions i and
\* i + 1 of road r have the fingerprints of its endpoints
PlacesOf(seg, roads) ==
    {ri \in UNION { {r} \X (1 .. (Len(roads[r]) - 1)) : r \in DOMAIN roads } :
        KeyPair(roads[ri[1]][ri[2]], roads[ri[1]][ri[2] + 1]) = KeyPair(seg[1], seg[2])}

\* the segments on chains that end at a node of degree 1: those with such an
\* endpoint, and those that a node of degree 2 joins to one of them
RECURSIVE DeadEnds(_, _, _)
DeadEnds(segments, dead, n) ==
    IF n = 0 THEN dead
    ELSE DeadEnds(segments,
            dead \cup {s \in DOMAIN segments :
                \E e \in 1 .. 2 :
                    \/ DegreeOf(segments, KeyOf(segments[s][e])) = 1
                    \/ /\ DegreeOf(segments, KeyOf(segments[s][e])) = 2
                       /\ \E t \in dead : t # s /\ KeyOf(segments[s][e])
                                                  \in KeyPair(segments[t][1], segments[t][2])},
            n - 1)

\* C22: every polyline joinSegments emits starts at a branch point, ends at
\* a branch point and has no branch point among its interior positions;
\* every extracted segment lies in at most one place of the emitted
\* polylines; and a segment on a chain that ends at a node of degree 1 lies
\* in none.
C22_JoinedRoads ==
    result # None
       => /\ \A r \in DOMAIN result[1].roads :
                /\ KeyOf(result[1].roads[r][1]) \in Range(result[1].branchPoints)
                /\ KeyOf(Last(result[1].roads[r])) \in Range(result[1].branchPoints)
                /\ \A i \in 2 .. (Len(result[1].roads[r]) - 1) :
                      KeyOf(result[1].roads[r][i]) \notin Range(result[1].branchPoints)
          /\ \A s \in DOMAIN result[1].segments :
                Cardinality(PlacesOf(result[1].segments[s], result[1].roads)) <= 1
          /\ \A s \in DeadEnds(result[1].segments, {}, Len(result[1].segments)) :
                PlacesOf(result[1].segments[s], result[1].roads) = {}

\* C23: no two segments kept by the edge extraction have the same unordered
\* pair of endpoint fingerprints, whichever way their rings walk them and
\* however their endpoints differ below the rounding precision.
C23_SegmentsUnique ==
    result # None
       => \A s, t \in DOMAIN result[1].segments :
             s # t => KeyPair(result[1].segments[s][1], result[1].segments[s][2])
                         # KeyPair(result[1].segments[t][1], result[1].segments[t][2])

-----------------------------------------------------------------------------
(* getMinBoundingBox on its own, over hulls of any shape.  A direction is  *)
(* an integer vector w; the box of the hull rotated by minus the bearing   *)
(* of w is given by the extents of the hull along w and across w, both in  *)
(* units of the length of w.                                               *)

\* the hulls: every triangle and every parallelogram with corners on a
\* lattice of 3 x 3 points, from any corner on and in either sense, closed
LatticePoints == {0, 1, 2} \X {0, 1, 2}

Hulls ==
    { <<a, b, c, a>> : a, b, c \in LatticePoints } \cup
    { <<a, b, <<b[1] + d[1] - a[1], b[2] + d[2] - a[2]>>, d, a>> :
         a, b, d \in LatticePoints }

\* the ring has an area, and no corner twice
ProperHull(hull) ==
    /\ \A i, j \in 1 .. (Len(hull) - 1) : i # j => hull[i] # hull[j]
    /\ \A i \in 1 .. (Len(hull) - 2) : CrossP(hull[i], hull[i + 1], hull[i + 2]) # 0
    /\ \A i \in 1 .. (Len(hull) - 1) : hull[i] \in LatticePoints

\* the orientation offsets, in degrees
Orientations == {0, 45, 90}

\* the vector of edge i of the hull, from hull[i] to the next point
EdgeVector(hull, i) ==
    <<hull[i + 1][1] - hull[i][1], hull[i + 1][2] - hull[i][2]>>

\* the direction whose bearing is that of w plus d degrees (clockwise)
Turn(w, d) ==
    IF d = 45 THEN <<w[1] + w[2], w[2] - w[1]>>
    ELSE IF d = 90 THEN <<w[2], -w[1]>>
    ELSE w

\* the least and the greatest of a set of numbers
Extent(S) ==
    <<CHOOSE x \in S : \A y \in S : x <= y, CHOOSE x \in S : \A y \in S : x >= y>>

\* turf.bbox of the hull rotated by minus the bearing of w, rotated back
BoxIn(hull, w) ==
    [axis   |-> w,
     along  |-> Extent({hull[k][1] * w[1] + hull[k][2] * w[2] : k \in DOMAIN hull}),
     across |-> Extent({hull[k][2] * w[1] - hull[k][1] * w[2] : k \in DOMAIN hull})]

\* turf.area of a box, times the squared lengths of two directions, so that
\* the areas of the boxes in the two directions compare as integers
AreaTimes(box, w) ==
    (box.along[2] - box.along[1]) * (box.across[2] - box.across[1])
       * (w[1] * w[1] + w[2] * w[2])

SmallerBox(hull, i, j) ==
    AreaTimes(BoxIn(hull, EdgeVector(hull, i)), EdgeVector(hull, j))
       < AreaTimes(BoxIn(hull, EdgeVector(hull, j)), EdgeVector(hull, i))

\* a loop that lets a later edge of the same area win
RECURSIVE LatestBestEdge(_, _, _)
LatestBestEdge(hull, i, best) ==
    IF i > Len(hull) - 1 THEN best
    ELSE LatestBestEdge(hull, i + 1,
            IF best = 0 \/ ~SmallerBox(hull, best, i) THEN i ELSE best)

\* the loop over the edges: best is the edge of the smallest box so far, 0
\* before the first
RECURSIVE BestEdge(_, _, _)
BestEdge(hull, i, best) ==
    IF i > Len(hull) - 1 THEN best
    ELSE BestEdge(hull, i + 1,
            IF best = 0 \/ SmallerBox(hull, i, best) THEN i ELSE best)

\* the direction of the box that replaces the winner when orientation > 0,
\* taken from the winning edge
OffsetFromWinner(hull, orientation) ==
    Turn(EdgeVector(hull, BestEdge(hull, 1, 0)), orientation)

\* the direction of the box that replaces the winner when orientation > 0:
\* angle is the bearing of the last edge of the loop
OffsetDirection(hull, orientation) ==
    Turn(EdgeVector(hull, Len(hull) - 1), orientation)

\* getMinBoundingBox with its orientation argument
getMinBoundingBoxAt(hull, orientation) ==
    IF orientation > 0 THEN BoxIn(hull, OffsetDirection(hull, orientation))
    ELSE BoxIn(hull, EdgeVector(hull, BestEdge(hull, 1, 0)))

InitBox ==
    /\ Quiet
    /\ \E hull \in Hulls : \E orientation \in Orientations :
          /\ ProperHull(hull)
          /\ args = [hull |-> hull, orientation |-> orientation]
    /\ result = None

Box ==
    /\ result = None
    /\ result' = <<getMinBoundingBoxAt(args.hull, args.orientation)>>
    /\ UNCHANGED <<rawBoundary, rawObstacles, boundary, obstacles, convexHull,
                   minBoundingBox, coverageGrid, voronoiPaths, mowPath,
                   pathMarkers, pc, path, previousLength, passes, outcome,
                   before, lastPass, args>>

SpecBox == InitBox /\ [][Box]_vars

\* the edges of the hull, in hull order
HullEdges == 1 .. (Len(args.hull) - 1)

\* no edge gives a box of smaller area than edge i does
Smallest(i) == \A j \in HullEdges : ~SmallerBox(args.hull, j, i)

\* C24: with orientation 0 the box returned is the one aligned to the hull
\* edge whose box has the smallest area among the boxes of all edges, and
\* among several such edges the earliest in hull order.
C24_SmallestBox ==
    (result # None /\ args.orientation = 0)
       => \E i \in HullEdges :
             /\ Smallest(i)
             /\ \A j \in HullEdges : j < i => ~Smallest(j)
             /\ result[1] = BoxIn(args.hull, EdgeVector(args.hull, i))

\* with orientation 0 a box was returned for a hull of which a later edge
\* gives a box of the same area in another direction, and for which some
\* edge gives a larger one
C24_Witness ==
    /\ result # None /\ args.orientation = 0
    /\ \E i, j \in HullEdges :
          /\ i < j /\ Smallest(i) /\ Smallest(j)
          /\ result[1] = BoxIn(args.hull, EdgeVector(args.hull, i))
          /\ result[1] # BoxIn(args.hull, EdgeVector(args.hull, j))
    /\ \E j \in HullEdges : ~Smallest(j)

-----------------------------------------------------------------------------
(* The forbidden region of a pass, checked under SpecSweep.                *)

\* the working obstacles of the state
WorkingObstacles == IF obstacles = Null THEN <<>> ELSE obstacles

\* the polygons of the forbidden region after the boundary's that hold a
\* position
ObstaclePolygons ==
    { Forbidden[k] : k \in { n \in 2 .. Len(Forbidden) : Forbidden[n] # <<>> } }

\* C26: the forbidden region of a pass is the working boundary and each
\* working obstacle as a ring of its own: its polygons after the boundary's
\* are the working obstacles' rings, one for each, and none holds the
\* positions of two obstacles.
C26_OneRingPerObstacle ==
    (pc = "rows" /\ boundary # Null)
       => /\ Forbidden[1] = boundary
          /\ ObstaclePolygons = Range(WorkingObstacles)

-----------------------------------------------------------------------------
(* The progress of the planning loop, checked under Spec.                  *)

\* the cells the last pass changed from unvisited to visited
NewlyVisited ==
    { k \in DOMAIN lastPass.gridIn :
         /\ lastPass.gridIn[k].visited = unvisited
         /\ lastPass.gridOut[k].visited = visited }

\* the unvisited cells of the grid the run began its loop with
InitiallyUnvisited ==
    CountOf(getCoverageGrid(boundary, obstacles, minBoundingBox, LaneWidth),
            unvisited)

\* C27: every pass of the planning loop that makes the path longer changes
\* at least one cell from unvisited to visited, and the number of passes of
\* a run is at most the number of cells unvisited at its start plus one, so
\* the loop terminates.
C27_PassesBounded ==
    passes > 0
       => /\ LastPassGrew => NewlyVisited # {}
          /\ passes <= InitiallyUnvisited + 1

\* a run has made a second or later pass that was routed to its resume
\* target and made the path longer
C27_Witness ==
    /\ passes >= 2 /\ lastPass.resume = "routed" /\ LastPassGrew
    /\ NewlyVisited # {}

-----------------------------------------------------------------------------
(* Where a resumed pass takes up the sweep, checked under SpecSweep.       *)

\* the pass under way, or the last pass, was routed to its resume target
\* and has emitted a waypoint
ResumedAndSwept ==
    /\ args # None /\ args[1].resume = "routed"
    /\ args[1].waypoints # <<>>

\* the resume target of that pass: the centroid of the first unvisited cell
\* of the grid the pass was given
ResumeTarget ==
    args[1].gridIn[UnvisitedCells(args[1].gridIn)[1]].centroid

\* the grid row of the resume target
ResumeRow ==
    args[1].gridIn[UnvisitedCells(args[1].gridIn)[1]].gridRow

\* C28: after a successful resume the first waypoint the pass emits is the
\* resume target, the centroid of the first unvisited cell in the order of
\* the grid, whether the target's row is even or odd.
C28_ResumesAtTarget ==
    ResumedAndSwept => args[1].waypoints[1] = ResumeTarget

-----------------------------------------------------------------------------
(* What is left when the loop stops, checked under SpecSweep.              *)

\* the router's answer for the way from the last vertex of the path to the
\* centroid of cell k
RouteToCell(k) ==
    calculateClearPath(voronoiPaths, Last(path), coverageGrid[k].centroid,
                       boundary, obstacles)

\* the router returns a route to cell k
Routable(k) == ~RouteToCell(k).threw /\ RouteToCell(k).line # Null

\* the loop has stopped short of its coverage target
StoppedShort ==
    /\ pc = "done" /\ outcome = "running"
    /\ path # Null /\ path # <<>>
    /\ CoverageBelowTarget(coverageGrid)

\* C29: when the planning loop stops with the coverage below 0.99 the
\* router has no route from the last vertex of the path to the centroid of
\* any cell that is still unvisited.
C29_NothingRoutableLeft ==
    StoppedShort
       => \A k \in DOMAIN coverageGrid :
             coverageGrid[k].visited = unvisited => ~Routable(k)

-----------------------------------------------------------------------------
(* The waypoints of a pass and the cells it visits, checked under          *)
(* SpecSweep.                                                              *)

\* the cells with the centroid p that are in the given state
CellsAt(p, state) ==
    { k \in DOMAIN coverageGrid :
         coverageGrid[k].centroid = p /\ coverageGrid[k].visited = state }

\* the cells the pass under way, or the last pass, has changed from
\* unvisited to visited
VisitedInPass ==
    { k \in DOMAIN coverageGrid :
         /\ args[1].gridIn[k].visited = unvisited
         /\ coverageGrid[k].visited = visited }

\* cell k lies in the row of the record e, from the row's first waypoint to
\* its last (the entry again when the row has emitted nothing after it)
WithinRow(e, k) ==
    /\ coverageGrid[k].gridRow = e.rowIndex
    /\ EmittedBy(e) # <<>>
    /\ LET entry == ColumnIn(e, EmittedBy(e)[1])
           exit  == ColumnIn(e, Last(EmittedBy(e)))
       IN  /\ Min(entry, exit) <= coverageGrid[k].gridCol
           /\ coverageGrid[k].gridCol <= Max(entry, exit)

\* C30: every waypoint a pass has emitted is the centroid of a visited cell;
\* every cell the pass has changed to visited lies in a row the pass went
\* through, between the first and the last waypoint that row emitted; and
\* after a pass the last vertex of the path is not the centroid of an
\* unvisited cell.
C30_WaypointsAreVisitedCells ==
    args # None
       => /\ \A m \in DOMAIN args[1].waypoints :
                CellsAt(args[1].waypoints[m], visited) # {}
          /\ \A k \in VisitedInPass :
                \E i \in DOMAIN result : WithinRow(result[i], k)
          /\ (pc # "rows" /\ path # Null /\ path # <<>>)
                => CellsAt(Last(path), unvisited) = {}

\* a pass has ended with a row that stopped at a gap, a row that emitted
\* its entry only, and unvisited cells left in the grid
C30_Witness ==
    /\ args # None /\ pc # "rows"
    /\ VisitedInPass # {}
    /\ CellsAt(Last(path), visited) # {}
    /\ \E k \in DOMAIN coverageGrid : coverageGrid[k].visited = unvisited
    /\ \E i \in DOMAIN result : Len(EmittedBy(result[i])) = 1
    /\ \E i \in DOMAIN result : \E j \in 2 .. Len(result[i].row) :
          Meets(result[i], j) /\ GapAt(result[i], j)

=============================================================================
